---- MODULE Spec2Model ----
(***************************************************************************)
(* A model of the YouTube transcript analyzer:                             *)
(*   - chunk_transcript / _is_natural_break   (src/src/analysis_utils.py)  *)
(*   - deduplicate_insights / _calculate_similarity (same file)            *)
(*   - the API's analysis_cache and its endpoints   (src/api.py)           *)
(*   - the VideoAnalyzer the endpoints call         (src/src/main.py)      *)
(*   - the TranscriptProcessor           (src/src/langchain_processor.py)  *)
(* Each part has its own specifications (SpecChunk, SpecDedup, SpecApi and *)
(* SpecKey, SpecProcess and SpecSummary); the variables of the other parts *)
(* stay at their initial values.                                           *)
(***************************************************************************)
EXTENDS Integers, Sequences, FiniteSets, TLC

VARIABLES
    \* chunk_transcript: its arguments and its locals
    transcript, chunk_size, seg_idx, chunks, current_chunk, current_duration, chunk_pc,
    \* deduplicate_insights: its arguments and its locals
    insights, similarity_threshold, ins_idx, unique_insights, dedup_pc,
    \* api.py: the dict analysis_cache, the requests in progress, the
    \* coroutines of analyze_sentiment / analyze_keypoints they run, and the
    \* response sent last
    analysis_cache, req, task, response,
    \* main.py, the VideoAnalyzer of api.py: current_video_data,
    \* current_video_metadata, _cache; and the calls it has made to the
    \* YouTube service and to the insight engine
    current_video_data, current_video_metadata, analyzer_cache, calls,
    \* langchain_processor.py, TranscriptProcessor: the argument of
    \* process_transcript, self.video_context, the locals chunks,
    \* chunk_analysis, chunk_results and final_summary, what it returns, where
    \* it is, and the calls made to the LLM chains and to TextBlob
    video_data, video_context, proc_chunks, chunk_analysis, chunk_results,
    final_summary, proc_result, proc_pc, llm_calls,
    \* main.py, a VideoAnalyzer used directly: the calls made on it, each
    \* with what it returned or raised and the collaborators it invoked
    direct_log,
    \* insight_engine.py, generate_insights and the golden nuggets of
    \* analyze_transcript: the text the LLM returned, the list made of it,
    \* and where the method is
    engine_response, engine_insights, engine_pc,
    \* transcript_service.py, extract_video_id: its argument, its result and
    \* whether it has been called
    id_url, id_result, id_pc

chunkVars == <<transcript, chunk_size, seg_idx, chunks, current_chunk, current_duration, chunk_pc>>

dedupVars == <<insights, similarity_threshold, ins_idx, unique_insights, dedup_pc>>

analyzerVars == <<current_video_data, current_video_metadata, analyzer_cache, calls>>
apiVars == <<analysis_cache, req, task, response, analyzerVars>>

procVars == <<video_data, video_context, proc_chunks, chunk_analysis, chunk_results,
              final_summary, proc_result, proc_pc, llm_calls>>

directVars == <<direct_log>>

insightVars == <<engine_response, engine_insights, engine_pc>>

idVars == <<id_url, id_result, id_pc>>

auxVars == <<directVars, insightVars, idVars>>

vars == <<chunkVars, dedupVars, apiVars, procVars, auxVars>>

(***************************************************************************)
(* Texts.  A text is a sequence of one-character strings, so that strip(), *)
(* lower(), endswith() and the regular expression [.!?]$ are computed on   *)
(* the characters as Python computes them.                                 *)
(***************************************************************************)
Whitespace == {" ", "\t", "\n"}

RECURSIVE LStrip(_)
LStrip(s) == IF s # <<>> /\ Head(s) \in Whitespace THEN LStrip(Tail(s)) ELSE s

RECURSIVE RStrip(_)
RStrip(s) ==
    IF s # <<>> /\ s[Len(s)] \in Whitespace THEN RStrip(SubSeq(s, 1, Len(s) - 1)) ELSE s

\* str.strip()
Strip(s) == RStrip(LStrip(s))

UpperToLower ==
    [c \in {"A", "C", "F", "H", "I", "M", "N", "T", "O", "D", "W", "X"} |->
        CASE c = "A" -> "a" [] c = "C" -> "c" [] c = "F" -> "f" [] c = "H" -> "h"
          [] c = "I" -> "i" [] c = "M" -> "m" [] c = "N" -> "n" [] c = "T" -> "t"
          [] c = "O" -> "o" [] c = "D" -> "d" [] c = "W" -> "w" [] c = "X" -> "x"]

LowerChar(c) == IF c \in DOMAIN UpperToLower THEN UpperToLower[c] ELSE c

\* str.lower()
Lower(s) == [i \in 1..Len(s) |-> LowerChar(s[i])]

\* str.endswith(suffix)
EndsWith(s, suffix) ==
    /\ Len(suffix) <= Len(s)
    /\ SubSeq(s, Len(s) - Len(suffix) + 1, Len(s)) = suffix

\* the list transition_phrases of _is_natural_break
transition_phrases ==
    { <<"h","o","w","e","v","e","r",",">>,
      <<"m","o","r","e","o","v","e","r",",">>,
      <<"f","u","r","t","h","e","r","m","o","r","e",",">>,
      <<"i","n"," ","a","d","d","i","t","i","o","n",",">>,
      <<"n","e","x","t",",">>,
      <<"f","i","n","a","l","l","y",",">>,
      <<"c","o","n","s","e","q","u","e","n","t","l","y",",">>,
      <<"t","h","e","r","e","f","o","r","e",",">> }

\* re.search(r'[.!?]$', text.strip()): the stripped text has no trailing
\* newline, so $ matches at its very end only.
EndsWithSentencePunctuation(text) ==
    LET t == Strip(text) IN t # <<>> /\ t[Len(t)] \in {".", "!", "?"}

_is_natural_break(text) ==
    \/ EndsWithSentencePunctuation(text)
    \/ \E phrase \in transition_phrases : EndsWith(Lower(Strip(text)), phrase)

(***************************************************************************)
(* chunk_transcript                                                        *)
(***************************************************************************)
\* chunk_size: int = 5
DefaultChunkSize == 5
\* current_duration >= 30: the 30 seconds per chunk
MaxChunkDuration == 30

\* ' '.join(texts)
RECURSIVE JoinTexts(_)
JoinTexts(texts) ==
    IF texts = <<>> THEN <<>>
    ELSE IF Len(texts) = 1 THEN texts[1]
    ELSE texts[1] \o <<" ">> \o JoinTexts(Tail(texts))

\* the dict appended to chunks
MakeChunk(cur, dur) ==
    [ text     |-> JoinTexts([i \in 1..Len(cur) |-> cur[i].text]),
      start    |-> cur[1].start,
      duration |-> dur,
      segments |-> cur ]

\* a mutant: the size limit tested with > instead of >=
ShouldCloseSizeStrict(cur, dur, segment, size) ==
    \/ Len(cur) > size
    \/ dur >= MaxChunkDuration
    \/ _is_natural_break(segment.text)

\* a mutant: the natural break is not looked at
ShouldCloseNoBreak(cur, dur, segment, size) ==
    \/ Len(cur) >= size
    \/ dur >= MaxChunkDuration

\* the condition that closes the pending chunk, tested after the append
ShouldClose(cur, dur, segment, size) ==
    \/ Len(cur) >= size
    \/ dur >= MaxChunkDuration
    \/ _is_natural_break(segment.text)

\* a mutant: the remaining segments are not added
AddRemainingForgotten(chs, cur, dur) == chs

\* "Add remaining segments"
AddRemaining(chs, cur, dur) ==
    IF cur # <<>> THEN Append(chs, MakeChunk(cur, dur)) ELSE chs

\* one iteration of "for segment in transcript"
ChunkLoop ==
    /\ chunk_pc = "loop"
    /\ seg_idx < Len(transcript)
    /\ LET segment == transcript[seg_idx + 1]
           cur     == Append(current_chunk, segment)
           dur     == current_duration + segment.duration
       IN  IF ShouldClose(cur, dur, segment, chunk_size)
           THEN /\ chunks' = Append(chunks, MakeChunk(cur, dur))
                /\ current_chunk' = <<>>
                /\ current_duration' = 0
           ELSE /\ chunks' = chunks
                /\ current_chunk' = cur
                /\ current_duration' = dur
    /\ seg_idx' = seg_idx + 1
    /\ UNCHANGED <<transcript, chunk_size, chunk_pc>>
    /\ UNCHANGED <<dedupVars, apiVars, procVars, auxVars>>

\* the end of the loop: the remaining segments, and the return
ChunkReturn ==
    /\ chunk_pc = "loop"
    /\ seg_idx = Len(transcript)
    /\ chunks' = AddRemaining(chunks, current_chunk, current_duration)
    /\ chunk_pc' = "done"
    /\ UNCHANGED <<transcript, chunk_size, seg_idx, current_chunk, current_duration>>
    /\ UNCHANGED <<dedupVars, apiVars, procVars, auxVars>>

(***************************************************************************)
(* The transcripts chunk_transcript is run on.                             *)
(***************************************************************************)
MaxSegments == 3
MaxChunkSize == 2

TextOk      == <<"o","k">>
TextDone    == <<"d","o","n","e","."," ">>
TextNext    == <<"s","o"," ","N","e","x","t",",">>
TextMidDot  == <<"a",".","b">>
TextWow     == <<"w","o","w","!">>

TextSamples == {TextOk, TextDone, TextNext, TextMidDot}
DurationSamples == {3, 15}
ChunkSizes == (0..MaxChunkSize) \cup {DefaultChunkSize}

RECURSIVE SumDurations(_)
SumDurations(segs) ==
    IF segs = <<>> THEN 0 ELSE segs[1].duration + SumDurations(Tail(segs))

\* segments ordered by start, not overlapping: each starts where the
\* previous one ends
Timed(texts, durs) ==
    [i \in 1..Len(texts) |->
        [ text     |-> texts[i],
          start    |-> SumDurations([j \in 1..(i - 1) |-> [duration |-> durs[j]]]),
          duration |-> durs[i] ]]

SmallTranscripts ==
    UNION { { Timed(texts, durs) : texts \in [1..k -> TextSamples],
                                   durs \in [1..k -> DurationSamples] } :
            k \in 0..MaxSegments }

\* 12 segments of 3 seconds, none ends at a natural break but the last, "wow!"
EndToEndTranscripts ==
    { Timed([i \in 1..12 |-> IF i = 12 THEN TextWow ELSE TextOk], [i \in 1..12 |-> 3]),
      Timed([i \in 1..12 |-> IF i = 12 THEN TextWow ELSE IF i % 2 = 0 THEN TextMidDot ELSE TextOk],
            [i \in 1..12 |-> 3]) }

ChunkInputs == SmallTranscripts \cup EndToEndTranscripts

ChunkIdle ==
    /\ transcript = <<>>
    /\ chunk_size = DefaultChunkSize
    /\ seg_idx = 0
    /\ chunks = <<>>
    /\ current_chunk = <<>>
    /\ current_duration = 0
    /\ chunk_pc = "idle"

(***************************************************************************)
(* deduplicate_insights                                                    *)
(***************************************************************************)
\* the first word of a text that starts with no whitespace
RECURSIVE FirstWord(_)
FirstWord(s) ==
    IF s = <<>> \/ Head(s) \in Whitespace THEN <<>> ELSE <<Head(s)>> \o FirstWord(Tail(s))

\* str.split(): the maximal runs of non-whitespace characters, in order
RECURSIVE Split(_)
Split(s) ==
    LET t == LStrip(s) IN
    IF t = <<>> THEN <<>>
    ELSE LET w == FirstWord(t) IN <<w>> \o Split(SubSeq(t, Len(w) + 1, Len(t)))

SetOf(seq) == {seq[i] : i \in 1..Len(seq)}

\* a mutant: split() forgotten, the set is the set of the characters
WordSetOfCharacters(text) == {<<c>> : c \in SetOf(Lower(text))}

\* set(text.lower().split())
WordSet(text) == SetOf(Split(Lower(text)))

\* a similarity or a threshold is the fraction num/den, den > 0 (the
\* quotients of the small counts here and the thresholds are far enough
\* apart for the float comparison to agree with the exact one)
Fraction(n, d) == [num |-> n, den |-> d]
GreaterThan(a, b) == a.num * b.den > b.num * a.den
GreaterOrEqual(a, b) == a.num * b.den >= b.num * a.den

_calculate_similarity(text1, text2) ==
    LET words1 == WordSet(text1)
        words2 == WordSet(text2)
        intersection == Cardinality(words1 \cap words2)
        union == Cardinality(words1 \cup words2)
    IN  IF union > 0 THEN Fraction(intersection, union) ELSE Fraction(0, 1)

\* a mutant: the threshold itself counts as a duplicate
IsDuplicateAtThreshold(insight, uniques, threshold) ==
    \E k \in 1..Len(uniques) :
        GreaterOrEqual(_calculate_similarity(insight.explanation, uniques[k].explanation),
                       threshold)

\* the inner loop "for unique in unique_insights": is_duplicate at its end
IsDuplicate(insight, uniques, threshold) ==
    \E k \in 1..Len(uniques) :
        GreaterThan(_calculate_similarity(insight.explanation, uniques[k].explanation),
                    threshold)

\* a mutant: a duplicate replaces the insight it duplicates
DedupBodyLastWins(uniques, insight, threshold) ==
    IF IsDuplicate(insight, uniques, threshold)
    THEN LET k == CHOOSE m \in 1..Len(uniques) :
                    /\ IsDuplicate(insight, <<uniques[m]>>, threshold)
                    /\ \A n \in 1..(m - 1) : ~IsDuplicate(insight, <<uniques[n]>>, threshold)
         IN  [uniques EXCEPT ![k] = insight]
    ELSE Append(uniques, insight)

\* a mutant: the accepted insight is put in front
DedupBodyInsertFront(uniques, insight, threshold) ==
    IF IsDuplicate(insight, uniques, threshold) THEN uniques ELSE <<insight>> \o uniques

\* the body of "for insight in insights": unique_insights after it
DedupBody(uniques, insight, threshold) ==
    IF IsDuplicate(insight, uniques, threshold) THEN uniques ELSE Append(uniques, insight)

\* the whole function, as the loop computes it
RECURSIVE DedupFrom(_, _, _)
DedupFrom(uniques, rest, threshold) ==
    IF rest = <<>> THEN uniques
    ELSE DedupFrom(DedupBody(uniques, Head(rest), threshold), Tail(rest), threshold)

deduplicate_insights(list, threshold) == DedupFrom(<<>>, list, threshold)

\* one iteration of "for insight in insights"
DedupLoop ==
    /\ dedup_pc = "loop"
    /\ ins_idx < Len(insights)
    /\ unique_insights' = DedupBody(unique_insights, insights[ins_idx + 1], similarity_threshold)
    /\ ins_idx' = ins_idx + 1
    /\ UNCHANGED <<insights, similarity_threshold, dedup_pc>>
    /\ UNCHANGED <<chunkVars, apiVars, procVars, auxVars>>

\* return unique_insights
DedupReturn ==
    /\ dedup_pc = "loop"
    /\ ins_idx = Len(insights)
    /\ dedup_pc' = "done"
    /\ UNCHANGED <<insights, similarity_threshold, ins_idx, unique_insights>>
    /\ UNCHANGED <<chunkVars, apiVars, procVars, auxVars>>

(***************************************************************************)
(* The insight lists deduplicate_insights is run on.                       *)
(***************************************************************************)
MaxInsights == 3

ExplanationSamples ==
    { <<>>, <<"x">>, <<"X"," ">>, <<"y">>, <<"x"," ","y">>, <<"y"," "," ","x"," ","z">> }

\* similarity_threshold: float = 0.8
DefaultThreshold == Fraction(8, 10)
ThresholdSamples ==
    { Fraction(0 - 1, 10), Fraction(0, 10), Fraction(5, 10), DefaultThreshold, Fraction(10, 10) }

ExplanationCutting == <<"i","n","c","r","e","a","s","e"," ","r","e","v","e","n","u","e"," ","b","y"," ","c","u","t","t","i","n","g"," ","c","o","s","t","s">>
ExplanationReducing == <<"i","n","c","r","e","a","s","e"," ","r","e","v","e","n","u","e"," ","b","y"," ","r","e","d","u","c","i","n","g"," ","c","o","s","t","s">>

\* the titles tell the insights of a list apart
Titled(explanations) ==
    [i \in 1..Len(explanations) |-> [title |-> i, explanation |-> explanations[i]]]

SmallInsightLists ==
    UNION { { Titled(e) : e \in [1..n -> ExplanationSamples] } : n \in 0..MaxInsights }

RevenueInsights == Titled(<<ExplanationCutting, ExplanationReducing>>)

DedupInputs == SmallInsightLists \cup {RevenueInsights}

DedupIdle ==
    /\ insights = <<>>
    /\ similarity_threshold = DefaultThreshold
    /\ ins_idx = 0
    /\ unique_insights = <<>>
    /\ dedup_pc = "idle"

(***************************************************************************)
(* The API (api.py) and its VideoAnalyzer (main.py).                       *)
(*                                                                         *)
(* The endpoints are coroutines of one event loop: the code between two    *)
(* awaits that suspend is one step.  quick_analysis never suspends, so     *)
(* "await quick_analysis(request)" inside analyze_video runs within the    *)
(* step that called it.  asyncio.to_thread runs the analyzer's method on a *)
(* worker thread, whose steps interleave with the event loop's and with    *)
(* those of the other worker threads.                                      *)
(***************************************************************************)
MaxRequests == 2

Requests == 1..MaxRequests
Urls == {"urlA", "urlB"}
\* the three forms of the url of one video, for SpecKey
KeyUrls == {"urlA", "shortA", "idA"}
Workers == {"sentiment", "keyPoints"}
Fields == {"metadata", "transcript", "sentiment", "keyPoints"}
\* the fields of AnalysisResponse
ResponseFields == Fields \cup {"summary"}

\* Python's None
None == [none |-> TRUE]
\* no url yet
NoUrl == "none"
EmptyDict == [f \in {} |-> None]

\* sub in s
Contains(s, sub) ==
    \E i \in 1..(Len(s) - Len(sub) + 1) : SubSeq(s, i, i + Len(sub) - 1) = sub

\* the place of the first sub in s, 0 when there is none
Find(s, sub) ==
    IF Contains(s, sub)
    THEN CHOOSE i \in 1..(Len(s) - Len(sub) + 1) :
            /\ SubSeq(s, i, i + Len(sub) - 1) = sub
            /\ \A j \in 1..(i - 1) : SubSeq(s, j, j + Len(sub) - 1) # sub
    ELSE 0

\* s.split(sep)
RECURSIVE SplitOn(_, _)
SplitOn(s, sep) ==
    LET i == Find(s, sep) IN
    IF i = 0 THEN <<s>>
    ELSE <<SubSeq(s, 1, i - 1)>> \o SplitOn(SubSeq(s, i + Len(sep), Len(s)), sep)

\* YouTubeService.extract_video_id(url)
extract_video_id(url) ==
    IF Contains(url, <<"y","o","u","t","u",".","b","e">>)
    THEN LET parts == SplitOn(url, <<"/">>) IN parts[Len(parts)]
    ELSE IF Contains(url, <<"y","o","u","t","u","b","e",".","c","o","m">>) /\ Contains(url, <<"v","=">>)
    THEN SplitOn(SplitOn(url, <<"v","=">>)[2], <<"&">>)[1]
    ELSE url

\* the video_url of the requests: urlA, shortA and idA name one video in
\* its three forms, urlB names another video
UrlText ==
    [ urlA   |-> <<"h","t","t","p","s",":","/","/","w","w","w",".","y","o","u","t","u","b","e",".","c","o","m","/","w","a","t","c","h","?","v","=","a","b","c">>,
      urlB   |-> <<"h","t","t","p","s",":","/","/","w","w","w",".","y","o","u","t","u","b","e",".","c","o","m","/","w","a","t","c","h","?","v","=","x","y","z">>,
      shortA |-> <<"h","t","t","p","s",":","/","/","y","o","u","t","u",".","b","e","/","a","b","c">>,
      idA    |-> <<"a","b","c">> ]

\* the video id that get_video_data extracts from the url
VideoIdOf == [u \in DOMAIN UrlText |-> extract_video_id(UrlText[u])]

\* what the YouTube service returns for a url: the metadata and the
\* transcript of its video
MetadataOf(u) == [metadata_of |-> VideoIdOf[u]]
TranscriptOf(u) == [transcript_of |-> VideoIdOf[u]]

\* the outcomes of YouTubeService.get_video_data: the video data, or None
\* (no metadata, no transcript, or an exception inside the service)
Outcomes == {"ok", "fail"}

\* VideoInsightEngine.analyze_sentiment(transcript) and
\* extract_key_points(transcript), which main.py calls and insight_engine.py
\* does not define: taken from the interface table of the specification as
\* a call that returns the sentiment mapping / the key points computed over
\* the transcript it is given, or raises.  With insight_engine.py as it is
\* every call raises (AttributeError), which is the outcome "fail".
\* The call may raise the rate-limit error of the LLM client
\* (openai.error.RateLimitError) or any other exception.
EngineResult(kind, data) == [result |-> kind, over |-> data]
EngineOutcomes == {"ok", "fail", "rate_limit"}

\* an exception: its class and what str(e) tells of the first cause, which
\* every handler on the way copies into the exception it raises
Exc(type, detail) == [type |-> type, detail |-> detail]

\* the exception of an engine call that did not return
EngineRaised(o) ==
    IF o = "rate_limit" THEN Exc("RateLimitError", "RateLimitError")
    ELSE Exc("Exception", "Exception")

\* get_transcript: raise ValueError(f"Could not fetch video data ...")
NoVideoData == Exc("ValueError", "NoVideoData")

\* main.py, every method: except Exception as e: raise ValueError(... str(e))
AnalyzerExcept(e) == Exc("ValueError", e.detail)

\* HTTPException(status_code, detail)
HTTPException(status, detail) ==
    [type |-> "HTTPException", status |-> status, detail |-> detail]

\* api.py, every endpoint:
\*   except Exception as e: raise HTTPException(status_code=500, detail=str(e))
EndpointExcept(e) == HTTPException(500, e.detail)

\* the wrapper of handle_openai_error around analyze_sentiment and
\* analyze_keypoints, when the endpoint raised e
handle_openai_error(e) ==
    IF e.type = "RateLimitError" THEN HTTPException(429, e.detail)
    ELSE HTTPException(500, e.detail)

\* the body of the response that FastAPI makes of an HTTPException
ErrorBody(e) == [detail |-> e.detail]

\* dict.get(f)
Get(d, f) == IF f \in DOMAIN d THEN d[f] ELSE None

\* dict.update(upd), as a new dict
Updated(d, upd) ==
    [f \in DOMAIN d \cup DOMAIN upd |-> IF f \in DOMAIN upd THEN upd[f] ELSE d[f]]

\* a mutant: the entry is assigned, not updated
CachePutReplacing(cache, u, upd) ==
    [k \in DOMAIN cache \cup {u} |-> IF k = u THEN upd ELSE cache[k]]

\* "if url not in cache: cache[url] = {}" and the update or the item
\* assignment that follows it
CachePut(cache, u, upd) ==
    [k \in DOMAIN cache \cup {u} |->
        IF k = u THEN Updated(IF u \in DOMAIN cache THEN cache[u] ELSE EmptyDict, upd)
        ELSE cache[k]]

\* analysis_cache[url] = final_result
CacheAssign(cache, u, entry) ==
    [k \in DOMAIN cache \cup {u} |-> IF k = u THEN entry ELSE cache[k]]

\* len(analysis_cache[...].keys()) >= 4
CompleteThreshold == 4

\* a mutant: complete with three fields
IsCompleteAtThree(cache, u) ==
    u \in DOMAIN cache /\ Cardinality(DOMAIN cache[u]) >= CompleteThreshold - 1

\* a mutant: > in place of >=
IsCompleteStrict(cache, u) ==
    u \in DOMAIN cache /\ Cardinality(DOMAIN cache[u]) > CompleteThreshold

\* the test of analyze_video for the complete cache
IsComplete(cache, u) ==
    u \in DOMAIN cache /\ Cardinality(DOMAIN cache[u]) >= CompleteThreshold

\* AnalysisResponse(**d): the fields not given are None
AnalysisResponse(d) == [f \in ResponseFields |-> Get(d, f)]

FieldOf(kind) == kind

Counted(c, u, what) == [c EXCEPT ![u][what] = @ + 1]

(***************************************************************************)
(* VideoAnalyzer.get_transcript(url).  It runs on the event loop (from     *)
(* quick_analysis) and on the worker threads, which no lock keeps apart,   *)
(* so it is taken in the steps whose order among the threads shows:        *)
(*   1. the test of _cache, the fetch, current_video_data = the transcript *)
(*   2. current_video_metadata = the metadata                              *)
(*   3. result = {current_video_data, current_video_metadata} as they then *)
(*      are, _cache[url].update(result), return result                     *)
(* The keys 'url' and 'analysis_timestamp' that step 2 adds to the         *)
(* metadata are left out.                                                  *)
(***************************************************************************)
TranscriptCached(acache, u) == u \in DOMAIN acache /\ "transcript" \in DOMAIN acache[u]

\* the outcomes that make a difference to get_transcript(u)
FetchOutcomes(acache, u) == IF TranscriptCached(acache, u) THEN {"ok"} ELSE Outcomes

\* step 1 when the fetch returned the video data
FetchedTranscript(u) ==
    /\ current_video_data' = TranscriptOf(u)
    /\ calls' = Counted(calls, u, "fetch")
    /\ UNCHANGED <<current_video_metadata, analyzer_cache>>

\* a mutant: the fetch is tried again before the ValueError
FetchFailedRetried(u) ==
    /\ calls' = Counted(Counted(calls, u, "fetch"), u, "fetch")
    /\ UNCHANGED <<current_video_data, current_video_metadata, analyzer_cache>>

\* step 1 when the fetch returned nothing: the ValueError
FetchFailed(u) ==
    /\ calls' = Counted(calls, u, "fetch")
    /\ UNCHANGED <<current_video_data, current_video_metadata, analyzer_cache>>

\* step 2
SetMetadata(u) ==
    /\ current_video_metadata' = MetadataOf(u)
    /\ UNCHANGED <<current_video_data, analyzer_cache, calls>>

\* step 3: the result
TranscriptResult == [transcript |-> current_video_data, metadata |-> current_video_metadata]

\* step 3: the cache of the analyzer
CacheResult(u) ==
    /\ analyzer_cache' = CachePut(analyzer_cache, u, TranscriptResult)
    /\ UNCHANGED <<current_video_data, current_video_metadata, calls>>

\* a request in progress; once its response is sent nothing of it is kept
\* but the response, which stays until the next response is sent
Arrived(op, u, pc, quick) == [op |-> op, url |-> u, pc |-> pc, quick |-> quick]
NoRequest == [op |-> "none", url |-> NoUrl, pc |-> "none", quick |-> None]
Answered == [op |-> "answered", url |-> NoUrl, pc |-> "done", quick |-> None]

\* a response: its request, the status and the body, and the line of api.py
\* whose return or raise made it
Response(r, op, u, line, status, body) ==
    [req |-> r, op |-> op, url |-> u, line |-> line, status |-> status, body |-> body]
\* before the first response: no request, no line, no status
NoResponse == Response(0, "none", NoUrl, 0, 0, None)

\* the lines of the return from the cache, of the return of a fresh result
\* and of the raise, in analyze_sentiment and in analyze_keypoints
WorkerLine(kind, what) ==
    IF kind = "sentiment"
    THEN (CASE what = "cached" -> 127 [] what = "fresh" -> 137 [] what = "raise" -> 139)
    ELSE (CASE what = "cached" -> 148 [] what = "fresh" -> 158 [] what = "raise" -> 160)

\* a coroutine of analyze_sentiment / analyze_keypoints: where it is, the
\* value it holds, the url of its request, and whether it is the endpoint
\* of its request or a task of analyze_video
NoTask == [st |-> "none", val |-> None, url |-> NoUrl, endpoint |-> FALSE]
TaskAt(st, val, u, endpoint) == [st |-> st, val |-> val, url |-> u, endpoint |-> endpoint]

\* the event loop runs one coroutine at a time: while quick_analysis is
\* inside get_transcript no other coroutine runs
LoopFree == \A r \in Requests : req[r].pc \notin {"set_metadata", "build_result"}

\* the requests arrive in the order of their numbers, and the first one
\* names urlA (under SpecApi the names of the two urls are interchangeable;
\* under SpecKey the first request uses the watch form)
CanArrive(r, u) ==
    /\ LoopFree
    /\ req[r].op = "none"
    /\ IF r = 1 THEN u = "urlA" ELSE req[r - 1].op # "none"

(***************************************************************************)
(* quick_analysis, called by the endpoint (op = "quick") or by             *)
(* analyze_video (op = "analyze").                                         *)
(***************************************************************************)
\* a mutant: the step ends between the two fields
QuickCachedMetadataOnly(u, result) ==
    CachePut(analysis_cache, u, [metadata |-> result.metadata])

\* "Cache the result": the cache after it
QuickCached(u, result) ==
    CachePut(analysis_cache, u,
             [metadata |-> result.metadata, transcript |-> result.transcript])

\* the AnalysisResponse of quick_analysis from a dict with get
QuickResponse(d) ==
    AnalysisResponse([metadata |-> Get(d, "metadata"), transcript |-> Get(d, "transcript")])

\* quick_analysis has returned quick_result: the endpoint sends it,
\* analyze_video goes on to create its two tasks and to await gather
QuickReturned(r, op, u, line, quick_result) ==
    IF op = "quick"
    THEN /\ req' = [req EXCEPT ![r] = Answered]
         /\ response' = Response(r, "quick", u, line, 200, quick_result)
         /\ UNCHANGED task
    ELSE /\ req' = [req EXCEPT ![r] = Arrived("analyze", u, "gather", quick_result)]
         /\ task' = [task EXCEPT ![r] = [k \in Workers |-> TaskAt("created", None, u, FALSE)]]
         /\ UNCHANGED response

\* quick_analysis has raised its HTTPException, which analyze_video turns
\* into its own
QuickRaised(r, op, u) ==
    /\ req' = [req EXCEPT ![r] = Answered]
    /\ LET e == EndpointExcept(AnalyzerExcept(NoVideoData)) IN
       response' = Response(r, op, u, IF op = "quick" THEN 118 ELSE 195,
                            EndpointExcept(e).status, ErrorBody(e))
    /\ UNCHANGED task

\* quick_analysis up to its return, or up to step 1 of get_transcript
QuickStart(r, op, u) ==
    IF u \in DOMAIN analysis_cache
    THEN /\ QuickReturned(r, op, u, 97, QuickResponse(analysis_cache[u]))
         /\ UNCHANGED <<analysis_cache, analyzerVars>>
    ELSE IF TranscriptCached(analyzer_cache, u)
    THEN /\ QuickReturned(r, op, u, 113, QuickResponse(analyzer_cache[u]))
         /\ analysis_cache' = QuickCached(u, analyzer_cache[u])
         /\ UNCHANGED analyzerVars
    ELSE \E o \in Outcomes :
           IF o = "ok"
           THEN /\ FetchedTranscript(u)
                /\ req' = [req EXCEPT ![r] = Arrived(op, u, "set_metadata", None)]
                /\ UNCHANGED <<analysis_cache, task, response>>
           ELSE /\ FetchFailed(u)
                /\ QuickRaised(r, op, u)
                /\ UNCHANGED analysis_cache

\* POST /analyze/quick
QuickAnalysis(r, u) ==
    /\ CanArrive(r, u)
    /\ QuickStart(r, "quick", u)
    /\ UNCHANGED <<chunkVars, dedupVars, procVars, auxVars>>

\* get_transcript on the event loop, step 2
QuickSetMetadata(r) ==
    /\ req[r].pc = "set_metadata"
    /\ SetMetadata(req[r].url)
    /\ req' = [req EXCEPT ![r].pc = "build_result"]
    /\ UNCHANGED <<analysis_cache, task, response>>
    /\ UNCHANGED <<chunkVars, dedupVars, procVars, auxVars>>

\* get_transcript on the event loop, step 3, and the rest of quick_analysis
QuickBuildResult(r) ==
    /\ req[r].pc = "build_result"
    /\ CacheResult(req[r].url)
    /\ analysis_cache' = QuickCached(req[r].url, TranscriptResult)
    /\ QuickReturned(r, req[r].op, req[r].url, 113, QuickResponse(TranscriptResult))
    /\ UNCHANGED <<chunkVars, dedupVars, procVars, auxVars>>

(***************************************************************************)
(* analyze_sentiment and analyze_keypoints (kind tells which), as an       *)
(* endpoint of request r or as a task of the analyze_video of request r.   *)
(***************************************************************************)
\* a mutant: the cache is not looked at
CacheHitNever(u, kind) == FALSE

\* "if request.video_url in analysis_cache and 'sentiment' in ..."
CacheHit(u, kind) == u \in DOMAIN analysis_cache /\ FieldOf(kind) \in DOMAIN analysis_cache[u]

OneField(kind, v) == [f \in {FieldOf(kind)} |-> v]

\* POST /analyze/sentiment, POST /analyze/keypoints: up to the await
WorkerRequest(r, kind, u) ==
    /\ CanArrive(r, u)
    /\ IF CacheHit(u, kind)
       THEN /\ req' = [req EXCEPT ![r] = Answered]
            /\ response' = Response(r, kind, u, WorkerLine(kind, "cached"), 200,
                              AnalysisResponse(OneField(kind, analysis_cache[u][FieldOf(kind)])))
            /\ UNCHANGED task
       ELSE /\ req' = [req EXCEPT ![r] = Arrived(kind, u, "thread", None)]
            /\ task' = [task EXCEPT ![r][kind] = TaskAt("thread", None, u, TRUE)]
            /\ UNCHANGED response
    /\ UNCHANGED <<analysis_cache, analyzerVars>>
    /\ UNCHANGED <<chunkVars, dedupVars, procVars, auxVars>>

\* the two tasks made by analyze_video start, each up to its await.  They
\* were scheduled one right after the other (create_task is call_soon, and
\* the loop calls its callbacks in the order of their registration), so no
\* other coroutine runs between them.
TaskStart(r) ==
    /\ LoopFree
    /\ \A kind \in Workers : task[r][kind].st = "created"
    /\ task' = [task EXCEPT ![r] =
                   [kind \in Workers |->
                       LET u == task[r][kind].url IN
                       IF CacheHit(u, kind)
                       THEN TaskAt("returned", analysis_cache[u][FieldOf(kind)], u, FALSE)
                       ELSE TaskAt("thread", None, u, FALSE)]]
    /\ UNCHANGED <<analysis_cache, req, response, analyzerVars>>
    /\ UNCHANGED <<chunkVars, dedupVars, procVars, auxVars>>

\* the worker thread, VideoAnalyzer.analyze_sentiment / extract_key_points:
\* "if not self.current_video_data" finds no current_video_data
ThreadNoTranscript(r, kind) ==
    /\ task[r][kind].st = "thread"
    /\ current_video_data = None
    /\ task' = [task EXCEPT ![r][kind].st = "get_transcript"]
    /\ UNCHANGED <<analysis_cache, req, response, analyzerVars>>
    /\ UNCHANGED <<chunkVars, dedupVars, procVars, auxVars>>

\* get_transcript on the worker thread, step 1
ThreadGetTranscript(r, kind) ==
    /\ task[r][kind].st = "get_transcript"
    /\ LET u == task[r][kind].url IN
       IF TranscriptCached(analyzer_cache, u)
       THEN /\ task' = [task EXCEPT ![r][kind].st = "compute"]
            /\ UNCHANGED analyzerVars
       ELSE \E o \in Outcomes :
              IF o = "ok"
              THEN /\ FetchedTranscript(u)
                   /\ task' = [task EXCEPT ![r][kind].st = "set_metadata"]
              ELSE /\ FetchFailed(u)
                   /\ task' = [task EXCEPT ![r][kind].st = "thread_failed",
                                           ![r][kind].val =
                                               AnalyzerExcept(AnalyzerExcept(NoVideoData))]
    /\ UNCHANGED <<analysis_cache, req, response>>
    /\ UNCHANGED <<chunkVars, dedupVars, procVars, auxVars>>

\* get_transcript on the worker thread, step 2
ThreadSetMetadata(r, kind) ==
    /\ task[r][kind].st = "set_metadata"
    /\ SetMetadata(task[r][kind].url)
    /\ task' = [task EXCEPT ![r][kind].st = "build_result"]
    /\ UNCHANGED <<analysis_cache, req, response>>
    /\ UNCHANGED <<chunkVars, dedupVars, procVars, auxVars>>

\* get_transcript on the worker thread, step 3
ThreadBuildResult(r, kind) ==
    /\ task[r][kind].st = "build_result"
    /\ CacheResult(task[r][kind].url)
    /\ task' = [task EXCEPT ![r][kind].st = "compute"]
    /\ UNCHANGED <<analysis_cache, req, response>>
    /\ UNCHANGED <<chunkVars, dedupVars, procVars, auxVars>>

\* the worker thread: the call of the insight engine on current_video_data,
\* after get_transcript or, when there is a current_video_data (there is
\* one for ever then), after the test that found it
ThreadCompute(r, kind) ==
    /\ \/ task[r][kind].st = "compute"
       \/ task[r][kind].st = "thread" /\ current_video_data # None
    /\ \E o \in EngineOutcomes :
         task' = [task EXCEPT ![r][kind].st = IF o = "ok" THEN "thread_returned"
                                                ELSE "thread_failed",
                              ![r][kind].val = IF o = "ok"
                                                 THEN EngineResult(kind, current_video_data)
                                                 ELSE AnalyzerExcept(EngineRaised(o))]
    /\ calls' = Counted(calls, task[r][kind].url, kind)
    /\ UNCHANGED <<analysis_cache, req, response, current_video_data,
                   current_video_metadata, analyzer_cache>>
    /\ UNCHANGED <<chunkVars, dedupVars, procVars, auxVars>>

\* the coroutine after the await: the result is cached and returned, or the
\* exception becomes an HTTPException.  The endpoint sends its response; a
\* task keeps its result for gather, if analyze_video still waits for it.
WorkerResume(r, kind) ==
    /\ LoopFree
    /\ task[r][kind].st \in {"thread_returned", "thread_failed"}
    /\ LET ok == task[r][kind].st = "thread_returned"
           val == task[r][kind].val
           u == task[r][kind].url
           \* the exception that leaves the decorated endpoint
           raised == handle_openai_error(EndpointExcept(val))
       IN  /\ analysis_cache' =
                 IF ok THEN CachePut(analysis_cache, u, OneField(kind, val))
                 ELSE analysis_cache
           /\ IF task[r][kind].endpoint
              THEN /\ req' = [req EXCEPT ![r] = Answered]
                   /\ response' = IF ok
                                  THEN Response(r, kind, u, WorkerLine(kind, "fresh"), 200,
                                                AnalysisResponse(OneField(kind, val)))
                                  ELSE Response(r, kind, u, WorkerLine(kind, "raise"),
                                                raised.status, ErrorBody(raised))
                   /\ task' = [task EXCEPT ![r][kind] = NoTask]
              ELSE /\ UNCHANGED <<req, response>>
                   /\ task' = [task EXCEPT ![r][kind] =
                                  IF req[r].pc = "gather"
                                  THEN IF ok THEN TaskAt("returned", val, u, FALSE)
                                       ELSE TaskAt("raised", raised, u, FALSE)
                                  ELSE NoTask]
    /\ UNCHANGED analyzerVars
    /\ UNCHANGED <<chunkVars, dedupVars, procVars, auxVars>>

(***************************************************************************)
(* analyze_video                                                           *)
(***************************************************************************)
\* POST /analyze: the test of the complete cache, then quick_analysis
AnalyzeRequest(r, u) ==
    /\ CanArrive(r, u)
    /\ IF IsComplete(analysis_cache, u)
       THEN /\ req' = [req EXCEPT ![r] = Answered]
            /\ response' = Response(r, "analyze", u, 169, 200,
                                    AnalysisResponse(analysis_cache[u]))
            /\ UNCHANGED <<analysis_cache, task, analyzerVars>>
       ELSE QuickStart(r, "analyze", u)
    /\ UNCHANGED <<chunkVars, dedupVars, procVars, auxVars>>

\* final_result
FinalResult(quick_result, sentiment_result, keypoints_result) ==
    [ metadata   |-> quick_result.metadata,
      transcript |-> quick_result.transcript,
      sentiment  |-> sentiment_result.sentiment,
      keyPoints  |-> keypoints_result.keyPoints ]

\* a mutant: analyze_video goes on with the first result
GatheredFirstCompleted(r) == \E k \in Workers : task[r][k].st = "returned"

\* "await asyncio.gather(sentiment_task, keypoints_task)" returns: both
\* tasks have returned
Gathered(r) == \A k \in Workers : task[r][k].st = "returned"

\* gather has both results: the combined result is cached and returned
AnalyzeGathered(r) ==
    /\ LoopFree
    /\ req[r].pc = "gather"
    /\ Gathered(r)
    /\ LET final_result ==
               FinalResult(req[r].quick,
                           AnalysisResponse(OneField("sentiment", task[r]["sentiment"].val)),
                           AnalysisResponse(OneField("keyPoints", task[r]["keyPoints"].val)))
       IN  /\ analysis_cache' = CacheAssign(analysis_cache, req[r].url, final_result)
           /\ response' = Response(r, "analyze", req[r].url, 193, 200,
                                   AnalysisResponse(final_result))
    /\ req' = [req EXCEPT ![r] = Answered]
    \* the results are taken; a task that has not finished is not touched
    /\ task' = [task EXCEPT ![r] =
                   [k \in Workers |-> IF task[r][k].st \in {"returned", "raised"}
                                      THEN NoTask ELSE task[r][k]]]
    /\ UNCHANGED analyzerVars
    /\ UNCHANGED <<chunkVars, dedupVars, procVars, auxVars>>

\* a mutant: the task that has not finished is cancelled
AnalyzeFailedCancelling(r) ==
    /\ LoopFree
    /\ req[r].pc = "gather"
    /\ \E k \in Workers :
          /\ task[r][k].st = "raised"
          /\ LET e == EndpointExcept(task[r][k].val) IN
             response' = Response(r, "analyze", req[r].url, 195, e.status, ErrorBody(e))
    /\ req' = [req EXCEPT ![r] = Answered]
    /\ task' = [task EXCEPT ![r] = [k \in Workers |-> NoTask]]
    /\ UNCHANGED <<analysis_cache, analyzerVars>>
    /\ UNCHANGED <<chunkVars, dedupVars, procVars, auxVars>>

\* gather raises the exception of a task; the other task, if it has not
\* finished, is left running
AnalyzeFailed(r) ==
    /\ LoopFree
    /\ req[r].pc = "gather"
    \* the exception of gather is that of a task that has raised
    /\ \E k \in Workers :
          /\ task[r][k].st = "raised"
          /\ LET e == EndpointExcept(task[r][k].val) IN
             response' = Response(r, "analyze", req[r].url, 195, e.status, ErrorBody(e))
    /\ req' = [req EXCEPT ![r] = Answered]
    /\ task' = [task EXCEPT ![r] =
                   [k \in Workers |-> IF task[r][k].st \in {"returned", "raised"}
                                      THEN NoTask ELSE task[r][k]]]
    /\ UNCHANGED <<analysis_cache, analyzerVars>>
    /\ UNCHANGED <<chunkVars, dedupVars, procVars, auxVars>>

ApiIdle ==
    /\ analysis_cache = EmptyDict
    /\ req = [r \in Requests |-> NoRequest]
    /\ task = [r \in Requests |-> [k \in Workers |-> NoTask]]
    /\ response = NoResponse
    /\ current_video_data = None
    /\ current_video_metadata = None
    /\ analyzer_cache = EmptyDict
    /\ calls = [u \in DOMAIN UrlText |-> [fetch |-> 0, sentiment |-> 0, keyPoints |-> 0]]

(***************************************************************************)
(* TranscriptProcessor (langchain_processor.py).                           *)
(*                                                                         *)
(* process_transcript is sequential; a step is one call of an LLM chain,   *)
(* of TextBlob or of the text splitter, each of which returns or raises.   *)
(* The text a chain returns is not computed: it is a value that tells the  *)
(* chain and the inputs it was invoked with.                               *)
(***************************************************************************)
MaxChunks == 3

\* response['text'] of chain.invoke(inputs)
LLMText(chain, inputs) == [chain |-> chain, inputs |-> inputs]

\* a call returns or raises
CallOutcomes == {"ok", "fail"}

\* dict.get(f, '')
GetOrEmpty(d, f) == IF f \in DOMAIN d THEN d[f] ELSE ""

\* the inputs that analyze_video_context gives to its chain
ContextInputs(metadata) ==
    [ title       |-> GetOrEmpty(metadata, "title"),
      channel     |-> GetOrEmpty(metadata, "channel_title"),
      description |-> GetOrEmpty(metadata, "description") ]

\* a mutant: after an exception the context that is there is kept
analyze_video_context_keeping(metadata, o) ==
    IF o = "ok" THEN LLMText("context", ContextInputs(metadata)) ELSE video_context

\* analyze_video_context(metadata): the text, or None after an exception
analyze_video_context(metadata, o) ==
    IF o = "ok" THEN LLMText("context", ContextInputs(metadata)) ELSE None

\* the inputs that summarize_chunk and extract_key_points give to their chain
ChunkInputsOf(context, chunk, chunk_index, total_chunks) ==
    [ context      |-> context,
      chunk_index  |-> chunk_index,
      total_chunks |-> total_chunks,
      text         |-> chunk ]

\* summarize_chunk(chunk, chunk_index, total_chunks)
summarize_chunk(context, chunk, chunk_index, total_chunks, o) ==
    IF o = "ok"
    THEN LLMText("summary", ChunkInputsOf(context, chunk, chunk_index, total_chunks))
    ELSE None

\* TranscriptProcessor.analyze_sentiment(text): polarity and subjectivity of
\* TextBlob, or None after an exception
TextBlobSentiment(text, o) ==
    IF o = "ok" THEN [polarity_of |-> text, subjectivity_of |-> text] ELSE None

\* extract_key_points(chunk, chunk_index, total_chunks)
extract_key_points(context, chunk, chunk_index, total_chunks, o) ==
    IF o = "ok"
    THEN LLMText("key_points", ChunkInputsOf(context, chunk, chunk_index, total_chunks))
    ELSE None

\* what an f-string makes of a value: None becomes the text "None"
FormatValue(x) == IF x = None THEN [text |-> "None"] ELSE x

\* f"Chunk {i+1} Summary: {r['summary']}\nKey Points: {r['key_points']}",
\* with i + 1 given as label
SummaryLine(label, r) ==
    [ label      |-> label,
      summary    |-> FormatValue(r.summary),
      key_points |-> FormatValue(r.key_points) ]

\* all_summaries: the lines that "\n".join puts together, in their order
all_summaries(results) == [i \in 1..Len(results) |-> SummaryLine(i, results[i])]

\* the inputs that generate_final_summary gives to its chain
FinalInputs(context, results) ==
    [context |-> context, summaries |-> all_summaries(results)]

\* generate_final_summary(chunk_results)
generate_final_summary(context, results, o) ==
    IF o = "ok" THEN LLMText("final", FinalInputs(context, results)) ELSE None

\* a call, as kept in llm_calls
Call(op, inputs, o) == [op |-> op, inputs |-> inputs, outcome |-> o]

\* a mutant: an analysis without summary is dropped
AppendAnalysisIfSummarised(results, analysis) ==
    IF analysis.summary = None THEN results ELSE Append(results, analysis)

\* chunk_results.append(chunk_analysis)
AppendAnalysis(results, analysis) == Append(results, analysis)

\* a mutant: the loop leaves the last chunk out
MoreChunksButLast(results, chunks_) == Len(results) < Len(chunks_) - 1

\* "for i, chunk in enumerate(chunks, 1)" has a next chunk
MoreChunks(results, chunks_) == Len(results) < Len(chunks_)

\* self.video_context = self.analyze_video_context(video_data['metadata'])
AnalyzeContext ==
    /\ proc_pc = "context"
    /\ \E o \in CallOutcomes :
          /\ video_context' = analyze_video_context(video_data.metadata, o)
          /\ llm_calls' = Append(llm_calls, Call("context", ContextInputs(video_data.metadata), o))
    /\ proc_pc' = "prepare"
    /\ UNCHANGED <<video_data, proc_chunks, chunk_analysis, chunk_results,
                   final_summary, proc_result>>
    /\ UNCHANGED <<chunkVars, dedupVars, apiVars, auxVars>>

\* "not chunks" for the chunks of prepare_transcript: None after an
\* exception, or the empty list that the splitter makes of an empty text
NoChunks(split, o) == o = "fail" \/ split = <<>>

\* chunks = self.prepare_transcript(video_data['transcript']);
\* if not chunks: return None
PrepareTranscript ==
    /\ proc_pc = "prepare"
    /\ \E o \in CallOutcomes :
          IF NoChunks(video_data.split, o)
          THEN /\ proc_pc' = "done"
               /\ proc_result' = None
               /\ UNCHANGED proc_chunks
          ELSE /\ proc_pc' = "summary"
               /\ proc_chunks' = video_data.split
               /\ UNCHANGED proc_result
    /\ UNCHANGED <<video_data, video_context, chunk_analysis, chunk_results,
                   final_summary, llm_calls>>
    /\ UNCHANGED <<chunkVars, dedupVars, apiVars, auxVars>>

\* the chunk of the loop and its index i
LoopIndex == Len(chunk_results) + 1

\* 'text': chunk, 'summary': self.summarize_chunk(chunk, i, total_chunks)
SummarizeChunk ==
    /\ proc_pc = "summary"
    /\ LET i == LoopIndex
           chunk == proc_chunks[i]
       IN \E o \in CallOutcomes :
            /\ chunk_analysis' =
                  [ text    |-> chunk,
                    summary |-> summarize_chunk(video_context, chunk, i, Len(proc_chunks), o) ]
            /\ llm_calls' = Append(llm_calls,
                  Call("summary", ChunkInputsOf(video_context, chunk, i, Len(proc_chunks)), o))
    /\ proc_pc' = "sentiment"
    /\ UNCHANGED <<video_data, video_context, proc_chunks, chunk_results,
                   final_summary, proc_result>>
    /\ UNCHANGED <<chunkVars, dedupVars, apiVars, auxVars>>

\* 'sentiment': self.analyze_sentiment(chunk)
SentimentChunk ==
    /\ proc_pc = "sentiment"
    /\ LET chunk == proc_chunks[LoopIndex] IN
       \E o \in CallOutcomes :
            /\ chunk_analysis' =
                  Updated(chunk_analysis, [sentiment |-> TextBlobSentiment(chunk, o)])
            /\ llm_calls' = Append(llm_calls, Call("sentiment", [text |-> chunk], o))
    /\ proc_pc' = "key_points"
    /\ UNCHANGED <<video_data, video_context, proc_chunks, chunk_results,
                   final_summary, proc_result>>
    /\ UNCHANGED <<chunkVars, dedupVars, apiVars, auxVars>>

\* 'key_points': self.extract_key_points(chunk, i, total_chunks), then
\* chunk_results.append(chunk_analysis) and the next round of the loop
KeyPointsChunk ==
    /\ proc_pc = "key_points"
    /\ LET i == LoopIndex
           chunk == proc_chunks[i]
       IN \E o \in CallOutcomes :
            /\ chunk_results' =
                  AppendAnalysis(chunk_results,
                      Updated(chunk_analysis,
                          [key_points |-> extract_key_points(video_context, chunk, i,
                                                             Len(proc_chunks), o)]))
            /\ llm_calls' = Append(llm_calls,
                  Call("key_points", ChunkInputsOf(video_context, chunk, i, Len(proc_chunks)), o))
    /\ chunk_analysis' = EmptyDict
    /\ proc_pc' = IF MoreChunks(chunk_results', proc_chunks) THEN "summary" ELSE "final"
    /\ UNCHANGED <<video_data, video_context, proc_chunks, final_summary, proc_result>>
    /\ UNCHANGED <<chunkVars, dedupVars, apiVars, auxVars>>

\* final_summary = self.generate_final_summary(chunk_results)
GenerateFinalSummary ==
    /\ proc_pc = "final"
    /\ \E o \in CallOutcomes :
          /\ final_summary' = generate_final_summary(video_context, chunk_results, o)
          /\ llm_calls' = Append(llm_calls,
                Call("final", FinalInputs(video_context, chunk_results), o))
    /\ proc_pc' = "return"
    /\ UNCHANGED <<video_data, video_context, proc_chunks, chunk_analysis, chunk_results,
                   proc_result>>
    /\ UNCHANGED <<chunkVars, dedupVars, apiVars, auxVars>>

\* the dict that process_transcript returns
ProcessResult ==
    [ context_analysis |-> video_context,
      chunk_analyses   |-> chunk_results,
      final_summary    |-> final_summary ]

ProcessReturn ==
    /\ proc_pc = "return"
    /\ proc_result' = ProcessResult
    /\ proc_pc' = "done"
    /\ UNCHANGED <<video_data, video_context, proc_chunks, chunk_analysis, chunk_results,
                   final_summary, llm_calls>>
    /\ UNCHANGED <<chunkVars, dedupVars, apiVars, auxVars>>

\* the inputs.  The chunks that the text splitter makes of a transcript are
\* told apart by their place in it.
ChunkText(j) == [chunk_text |-> j]
SplitSamples == { [j \in 1..n |-> ChunkText(j)] : n \in 0..MaxChunks }
MetadataSamples ==
    { [title |-> "title", channel_title |-> "channel", description |-> "description"],
      [title |-> "title"] }
\* self.video_context before the run: None, or the context of an earlier run
EarlierContext == LLMText("context", ContextInputs([title |-> "earlier"]))
ContextSamples == {None, EarlierContext}

\* the locals before process_transcript has set them
NoLocals ==
    /\ proc_chunks = <<>>
    /\ chunk_analysis = EmptyDict
    /\ chunk_results = <<>>
    /\ final_summary = None
    /\ proc_result = None
    /\ llm_calls = <<>>

ProcIdle ==
    /\ video_data = [metadata |-> EmptyDict, split |-> <<>>]
    /\ video_context = None
    /\ NoLocals
    /\ proc_pc = "idle"

\* the chunk analyses that a caller hands to generate_final_summary: the
\* analyses of the chunks 1..n, each tagged with its chunk_index, in any
\* order, each with the summary and the key points of a call that returned
\* or of a call that raised
TaggedAnalysis(context, j, n, o_summary, o_key_points) ==
    [ chunk_index |-> j,
      text        |-> ChunkText(j),
      summary     |-> summarize_chunk(context, ChunkText(j), j, n, o_summary),
      sentiment   |-> TextBlobSentiment(ChunkText(j), "ok"),
      key_points  |-> extract_key_points(context, ChunkText(j), j, n, o_key_points) ]

Orders(n) == { p \in [1..n -> 1..n] : \A i, j \in 1..n : p[i] = p[j] => i = j }

ScrambledResults(context) ==
    UNION { { [i \in 1..n |-> TaggedAnalysis(context, p[i], n, os[p[i]], ok[p[i]])] :
                p \in Orders(n),
                os \in [1..n -> CallOutcomes],
                ok \in [1..n -> CallOutcomes] } : n \in 0..MaxChunks }

(***************************************************************************)
(* A VideoAnalyzer used directly (main.py), as run_analysis.py and the     *)
(* command line do: one thread, one call after the other.  Each call is    *)
(* kept in direct_log with what it returned or raised and with the         *)
(* collaborators it invoked.                                               *)
(***************************************************************************)
MaxCalls == 4

\* raise ValueError("No video has been analyzed yet. Please analyze a video first.")
PreconditionError ==
    Exc("ValueError", "No video has been analyzed yet. Please analyze a video first.")

\* a mutant: the methods go on without a transcript
NoCurrentVideoNever == FALSE

\* "if not self.current_video_data"
NoCurrentVideo == current_video_data = None

\* a call in direct_log; its outcome is [returned |-> value] or
\* [raised |-> exception]
DirectCall(method, arg, outcome, collaborators) ==
    [method |-> method, arg |-> arg, outcome |-> outcome, collaborators |-> collaborators]

\* get_transcript(video_url), the whole of it
DirectGetTranscript(u) ==
    /\ Len(direct_log) < MaxCalls
    /\ IF TranscriptCached(analyzer_cache, u)
       THEN /\ direct_log' = Append(direct_log,
                   DirectCall("get_transcript", u, [returned |-> analyzer_cache[u]], {}))
            /\ UNCHANGED analyzerVars
       ELSE \E o \in Outcomes :
              IF o = "ok"
              THEN LET result == [transcript |-> TranscriptOf(u), metadata |-> MetadataOf(u)] IN
                   /\ current_video_data' = result.transcript
                   /\ current_video_metadata' = result.metadata
                   /\ analyzer_cache' = CachePut(analyzer_cache, u, result)
                   /\ calls' = Counted(calls, u, "fetch")
                   /\ direct_log' = Append(direct_log,
                          DirectCall("get_transcript", u, [returned |-> result],
                                     {"get_video_data"}))
              ELSE /\ FetchFailed(u)
                   /\ direct_log' = Append(direct_log,
                          DirectCall("get_transcript", u,
                                     [raised |-> AnalyzerExcept(NoVideoData)],
                                     {"get_video_data"}))
    /\ UNCHANGED <<analysis_cache, req, task, response>>
    /\ UNCHANGED <<chunkVars, dedupVars, procVars, insightVars, idVars>>

\* chat_with_video(question): no try around the chat interface
ChatWithVideo ==
    /\ Len(direct_log) < MaxCalls
    /\ IF NoCurrentVideo
       THEN direct_log' = Append(direct_log,
               DirectCall("chat_with_video", "question", [raised |-> PreconditionError], {}))
       ELSE \E o \in {"ok", "fail"} :
               direct_log' = Append(direct_log,
                  DirectCall("chat_with_video", "question",
                             IF o = "ok" THEN [returned |-> [answer_to |-> "question"]]
                             ELSE [raised |-> Exc("Exception", "Exception")],
                             {"create_chat_interface", "chat_interface"}))
    /\ UNCHANGED <<apiVars, chunkVars, dedupVars, procVars, insightVars, idVars>>

\* get_segment_context(timestamp): the segments of current_video_data
\* around the timestamp
GetSegmentContext ==
    /\ Len(direct_log) < MaxCalls
    /\ direct_log' = Append(direct_log,
          IF NoCurrentVideo
          THEN DirectCall("get_segment_context", "timestamp", [raised |-> PreconditionError], {})
          ELSE DirectCall("get_segment_context", "timestamp",
                          [returned |-> [segments_of |-> current_video_data]],
                          {"format_timestamp"}))
    /\ UNCHANGED <<apiVars, chunkVars, dedupVars, procVars, insightVars, idVars>>

\* export_analysis(filepath): open, generate_insights, deduplicate_insights
\* and json.dump, any of which may raise
ExportAnalysis ==
    /\ Len(direct_log) < MaxCalls
    /\ IF NoCurrentVideo
       THEN direct_log' = Append(direct_log,
               DirectCall("export_analysis", "filepath", [raised |-> PreconditionError], {}))
       ELSE \E o \in {"ok", "fail"} :
               direct_log' = Append(direct_log,
                  DirectCall("export_analysis", "filepath",
                             IF o = "ok" THEN [returned |-> None]
                             ELSE [raised |-> Exc("Exception", "Exception")],
                             {"open", "generate_insights", "deduplicate_insights", "json.dump"}))
    /\ UNCHANGED <<apiVars, chunkVars, dedupVars, procVars, insightVars, idVars>>

(***************************************************************************)
(* VideoInsightEngine (insight_engine.py): what generate_insights and the  *)
(* golden-nugget extraction of analyze_transcript make of the text that    *)
(* the LLM returned.  The text is a sequence of characters;                *)
(* _clean_json_response and json.loads are computed on it.  The values of  *)
(* JSON are [str |-> characters], [num |-> characters], [arr |-> sequence  *)
(* of values] and [obj |-> sequence of <<key, value>>].  The texts of the  *)
(* model hold no escape, no fraction, no sign and no true, false or null.  *)
(***************************************************************************)
\* the character of the code fence, which a string of TLA+ cannot hold
Backtick == "backtick"

Digits == {"0", "1", "2", "3", "4", "5", "6", "7", "8", "9"}

\* the first place from i on that holds no whitespace (Len(s) + 1 if none)
RECURSIVE SkipWs(_, _)
SkipWs(s, i) == IF i <= Len(s) /\ s[i] \in Whitespace THEN SkipWs(s, i + 1) ELSE i

\* the first place from i on that holds a character not in cs
RECURSIVE SkipIn(_, _, _)
SkipIn(s, i, cs) == IF i <= Len(s) /\ s[i] \in cs THEN SkipIn(s, i + 1, cs) ELSE i

\* the result of a parse that failed, and of one that made val and ends
\* before place next
NoParse == [ok |-> FALSE]
Parsed(val, next) == [ok |-> TRUE, val |-> val, next |-> next]

\* json's scanner from place i of s: a string, a number, an array or an
\* object; the elements of an array and the members of an object after
\* those in acc
RECURSIVE ParseValue(_, _), ParseElements(_, _, _), ParseMembers(_, _, _)
ParseValue(s, i) ==
    IF i > Len(s) THEN NoParse
    ELSE IF s[i] = "\"" THEN
        LET j == SkipIn(s, i + 1, {s[k] : k \in 1..Len(s)} \ {"\""}) IN
        IF j > Len(s) THEN NoParse ELSE Parsed([str |-> SubSeq(s, i + 1, j - 1)], j + 1)
    ELSE IF s[i] \in Digits THEN
        LET j == SkipIn(s, i, Digits) IN Parsed([num |-> SubSeq(s, i, j - 1)], j)
    ELSE IF s[i] = "[" THEN
        LET k == SkipWs(s, i + 1) IN
        IF k <= Len(s) /\ s[k] = "]" THEN Parsed([arr |-> <<>>], k + 1)
        ELSE ParseElements(s, k, <<>>)
    ELSE IF s[i] = "{" THEN
        LET k == SkipWs(s, i + 1) IN
        IF k <= Len(s) /\ s[k] = "}" THEN Parsed([obj |-> <<>>], k + 1)
        ELSE ParseMembers(s, k, <<>>)
    ELSE NoParse

ParseElements(s, i, acc) ==
    LET e == ParseValue(s, i) IN
    IF ~e.ok THEN NoParse
    ELSE LET k == SkipWs(s, e.next) IN
         IF k > Len(s) THEN NoParse
         ELSE IF s[k] = "]" THEN Parsed([arr |-> Append(acc, e.val)], k + 1)
         ELSE IF s[k] = "," THEN ParseElements(s, SkipWs(s, k + 1), Append(acc, e.val))
         ELSE NoParse

ParseMembers(s, i, acc) ==
    LET key == IF i <= Len(s) /\ s[i] = "\"" THEN ParseValue(s, i) ELSE NoParse IN
    IF ~key.ok THEN NoParse
    ELSE LET c == SkipWs(s, key.next) IN
         IF c > Len(s) \/ s[c] # ":" THEN NoParse
         ELSE LET e == ParseValue(s, SkipWs(s, c + 1)) IN
              IF ~e.ok THEN NoParse
              ELSE LET k == SkipWs(s, e.next)
                       members == Append(acc, <<key.val.str, e.val>>)
                   IN IF k > Len(s) THEN NoParse
                      ELSE IF s[k] = "}" THEN Parsed([obj |-> members], k + 1)
                      ELSE IF s[k] = "," THEN ParseMembers(s, SkipWs(s, k + 1), members)
                      ELSE NoParse

\* json.loads(s): the value, or JSONDecodeError (ok is FALSE) when s does
\* not hold one value and nothing but whitespace around it
json_loads(s) ==
    LET r == ParseValue(s, SkipWs(s, 1)) IN
    IF r.ok /\ SkipWs(s, r.next) > Len(s) THEN [ok |-> TRUE, val |-> r.val] ELSE NoParse

\* re.sub(fence + r'\s*', '', s)
RECURSIVE ReSubFence(_, _)
ReSubFence(s, fence) ==
    IF s = <<>> THEN <<>>
    ELSE IF Len(s) >= Len(fence) /\ SubSeq(s, 1, Len(fence)) = fence
    THEN ReSubFence(SubSeq(s, SkipWs(s, Len(fence) + 1), Len(s)), fence)
    ELSE <<Head(s)>> \o ReSubFence(Tail(s), fence)

\* s.rfind(c) + 1
RFind(s, c) ==
    IF \E i \in 1..Len(s) : s[i] = c
    THEN CHOOSE i \in 1..Len(s) : s[i] = c /\ \A j \in (i + 1)..Len(s) : s[j] # c
    ELSE 0

\* _clean_json_response(response)
_clean_json_response(text) ==
    LET unfenced == ReSubFence(ReSubFence(text, <<Backtick, Backtick, Backtick, "j", "s", "o", "n">>), <<Backtick, Backtick, Backtick>>)
        start == Find(unfenced, <<"[">>)
        end == RFind(unfenced, "]")
    IN Strip(IF start >= 1 /\ end >= start THEN SubSeq(unfenced, start, end) ELSE unfenced)

\* the insight that generate_insights returns when parsing fails
BasicInsight ==
    [obj |-> <<
        << <<"t", "i", "t", "l", "e">>,
           [str |-> <<"T", "r", "a", "n", "s", "c", "r", "i", "p", "t", " ", "A", "n", "a", "l", "y", "s", "i", "s">>] >>,
        << <<"e", "x", "p", "l", "a", "n", "a", "t", "i", "o", "n">>,
           [str |-> <<"T", "h", "e", " ", "t", "r", "a", "n", "s", "c", "r", "i", "p", "t", " ", "h", "a", "s", " ", "b", "e", "e", "n", " ", "p", "r", "o", "c", "e", "s", "s", "e", "d", " ", "b", "u", "t", " ", "i", "n", "s", "i", "g", "h", "t", "s", " ", "c", "o", "u", "l", "d", " ", "n", "o", "t", " ", "b", "e", " ", "s", "t", "r", "u", "c", "t", "u", "r", "e", "d", " ", "p", "r", "o", "p", "e", "r", "l", "y", ".">>] >>,
        << <<"i", "m", "p", "o", "r", "t", "a", "n", "c", "e">>,
           [str |-> <<"F", "u", "r", "t", "h", "e", "r", " ", "a", "n", "a", "l", "y", "s", "i", "s", " ", "m", "a", "y", " ", "b", "e", " ", "n", "e", "e", "d", "e", "d", ".">>] >>,
        << <<"c", "o", "n", "t", "e", "x", "t">>,
           [str |-> <<"F", "u", "l", "l", " ", "t", "r", "a", "n", "s", "c", "r", "i", "p", "t", " ", "a", "v", "a", "i", "l", "a", "b", "l", "e", " ", "i", "n", " ", "s", "t", "o", "r", "a", "g", "e", ".">>] >>
    >>]

\* generate_insights, from the response of the chain to its return
generate_insights(text) ==
    LET insights_ == json_loads(_clean_json_response(text)) IN
    IF insights_.ok THEN insights_.val ELSE [arr |-> <<BasicInsight>>]

\* analyze_transcript, from nuggets_result to golden_nuggets
golden_nuggets(nuggets_result) ==
    LET parsed == json_loads(_clean_json_response(nuggets_result)) IN
    IF parsed.ok THEN parsed.val ELSE [arr |-> <<>>]

GenerateInsights ==
    /\ engine_pc = "generate_insights"
    /\ engine_insights' = generate_insights(engine_response)
    /\ engine_pc' = "done"
    /\ UNCHANGED <<engine_response, directVars, idVars>>
    /\ UNCHANGED <<chunkVars, dedupVars, apiVars, procVars>>

GoldenNuggets ==
    /\ engine_pc = "analyze_transcript"
    /\ engine_insights' = golden_nuggets(engine_response)
    /\ engine_pc' = "done"
    /\ UNCHANGED <<engine_response, directVars, idVars>>
    /\ UNCHANGED <<chunkVars, dedupVars, apiVars, procVars>>

\* the texts of the LLM: what may stand before the list, the list or what
\* is there in its place, and what may stand after it
ResponsePrefixes ==
    { <<>>,
      <<Backtick, Backtick, Backtick, "j", "s", "o", "n", "\n">>,
      <<"H", "e", "r", "e", ":", " ">> }
ResponseCores ==
    { <<"[", "{", "\"", "t", "\"", ":", " ", "\"", "x", "\"", ",", " ", "\"", "e", "\"", ":", " ", "\"", "y", "\"", "}", "]">>,
      <<"[", "]">>,
      <<"[", "{", "\"", "t", "\"", ":", " ", "\"", "x", "\"", "}", ",", " ", "{", "\"", "t", "\"", ":", " ", "\"", "z", "\"", "}", "]">>,
      <<"[", "{", "\"", "t", "\"", ":", " ", "\"", "x", "\"">>,
      <<"o", "o", "p", "s">>,
      <<>>,
      <<"{", "\"", "t", "\"", ":", " ", "\"", "x", "\"", "}">>,
      <<"[", "\"", "a", "\"", " ", "\"", "b", "\"", "]">>,
      <<"[", "1", ",", " ", "2", "]">>,
      <<"[", "{", "\"", "t", "\"", ":", " ", "x", "}", "]">> }
ResponseSuffixes ==
    { <<>>,
      <<"\n", Backtick, Backtick, Backtick>>,
      <<" ", "o", "k">> }
ResponseSamples ==
    { p \o c \o x : p \in ResponsePrefixes, c \in ResponseCores, x \in ResponseSuffixes }

(***************************************************************************)
(* YouTubeService.extract_video_id on the forms of url that it supports.   *)
(***************************************************************************)
\* the ids of three videos
VideoIds ==
    { <<"a", "b", "c">>,
      <<"x", "-", "Y", "9">>,
      <<"a", "_", "1">> }
UrlSchemes ==
    { <<"h", "t", "t", "p", ":", "/", "/">>, <<"h", "t", "t", "p", "s", ":", "/", "/">> }
WatchHosts ==
    { <<"w", "w", "w", ".", "y", "o", "u", "t", "u", "b", "e", ".", "c", "o", "m">>,
      <<"y", "o", "u", "t", "u", "b", "e", ".", "c", "o", "m">>,
      <<"m", ".", "y", "o", "u", "t", "u", "b", "e", ".", "c", "o", "m">> }
\* nothing, or further parameters after the id
WatchParameters ==
    { <<>>,
      <<"&", "t", "=", "1", "s">>,
      <<"&", "f", "e", "a", "t", "u", "r", "e", "=", "y", "o", "u", "t", "u", ".", "b", "e">> }

\* the forms of the url of the video id
WatchUrls(id) ==
    { s \o h \o <<"/", "w", "a", "t", "c", "h", "?", "v", "=">> \o id \o p :
        s \in UrlSchemes, h \in WatchHosts, p \in WatchParameters }
ShortUrls(id) == { s \o <<"y", "o", "u", "t", "u", ".", "b", "e", "/">> \o id : s \in UrlSchemes }
SupportedForms(id) == WatchUrls(id) \cup ShortUrls(id) \cup {id}

\* service.extract_video_id(id_url)
ExtractVideoId ==
    /\ id_pc = "call"
    /\ id_result' = extract_video_id(id_url)
    /\ id_pc' = "done"
    /\ UNCHANGED <<id_url, directVars, insightVars>>
    /\ UNCHANGED <<chunkVars, dedupVars, apiVars, procVars>>

(***************************************************************************)
(* The state of these parts before they are used.                          *)
(***************************************************************************)
AuxIdle ==
    /\ direct_log = <<>>
    /\ engine_response = <<>>
    /\ engine_insights = <<>>
    /\ engine_pc = "idle"
    /\ id_url = <<>>
    /\ id_result = <<>>
    /\ id_pc = "idle"

(***************************************************************************)
(* The specifications.                                                     *)
(***************************************************************************)
InitChunk ==
    /\ transcript \in ChunkInputs
    /\ chunk_size \in ChunkSizes
    /\ seg_idx = 0
    /\ chunks = <<>>
    /\ current_chunk = <<>>
    /\ current_duration = 0
    /\ chunk_pc = "loop"
    /\ DedupIdle
    /\ ApiIdle
    /\ ProcIdle
    /\ AuxIdle

NextChunk == ChunkLoop \/ ChunkReturn

SpecChunk == InitChunk /\ [][NextChunk]_vars

InitDedup ==
    /\ insights \in DedupInputs
    /\ similarity_threshold \in ThresholdSamples
    /\ ins_idx = 0
    /\ unique_insights = <<>>
    /\ dedup_pc = "loop"
    /\ ChunkIdle
    /\ ApiIdle
    /\ ProcIdle
    /\ AuxIdle

NextDedup == DedupLoop \/ DedupReturn

SpecDedup == InitDedup /\ [][NextDedup]_vars

InitApi == ApiIdle /\ ChunkIdle /\ DedupIdle /\ ProcIdle /\ AuxIdle

NextApi ==
    \/ \E r \in Requests, u \in Urls : QuickAnalysis(r, u)
    \/ \E r \in Requests, k \in Workers, u \in Urls : WorkerRequest(r, k, u)
    \/ \E r \in Requests, u \in Urls : AnalyzeRequest(r, u)
    \/ \E r \in Requests : TaskStart(r)
    \/ \E r \in Requests : QuickSetMetadata(r)
    \/ \E r \in Requests : QuickBuildResult(r)
    \/ \E r \in Requests, k \in Workers : ThreadNoTranscript(r, k)
    \/ \E r \in Requests, k \in Workers : ThreadGetTranscript(r, k)
    \/ \E r \in Requests, k \in Workers : ThreadSetMetadata(r, k)
    \/ \E r \in Requests, k \in Workers : ThreadBuildResult(r, k)
    \/ \E r \in Requests, k \in Workers : ThreadCompute(r, k)
    \/ \E r \in Requests, k \in Workers : WorkerResume(r, k)
    \/ \E r \in Requests : AnalyzeGathered(r)
    \/ \E r \in Requests : AnalyzeFailed(r)

SpecApi == InitApi /\ [][NextApi]_vars

\* the API with requests that name one video by the three forms of its url
NextKey ==
    \/ \E r \in Requests, u \in KeyUrls : QuickAnalysis(r, u)
    \/ \E r \in Requests, k \in Workers, u \in KeyUrls : WorkerRequest(r, k, u)
    \/ \E r \in Requests, u \in KeyUrls : AnalyzeRequest(r, u)
    \/ \E r \in Requests : TaskStart(r)
    \/ \E r \in Requests : QuickSetMetadata(r)
    \/ \E r \in Requests : QuickBuildResult(r)
    \/ \E r \in Requests, k \in Workers : ThreadNoTranscript(r, k)
    \/ \E r \in Requests, k \in Workers : ThreadGetTranscript(r, k)
    \/ \E r \in Requests, k \in Workers : ThreadSetMetadata(r, k)
    \/ \E r \in Requests, k \in Workers : ThreadBuildResult(r, k)
    \/ \E r \in Requests, k \in Workers : ThreadCompute(r, k)
    \/ \E r \in Requests, k \in Workers : WorkerResume(r, k)
    \/ \E r \in Requests : AnalyzeGathered(r)
    \/ \E r \in Requests : AnalyzeFailed(r)

SpecKey == InitApi /\ [][NextKey]_vars

\* process_transcript(video_data) on a TranscriptProcessor that is new or
\* has made an earlier run
InitProcess ==
    /\ video_data \in [metadata : MetadataSamples, split : SplitSamples]
    /\ video_context \in ContextSamples
    /\ NoLocals
    /\ proc_pc = "context"
    /\ ChunkIdle /\ DedupIdle /\ ApiIdle /\ AuxIdle

NextProcess ==
    \/ AnalyzeContext
    \/ PrepareTranscript
    \/ SummarizeChunk
    \/ SentimentChunk
    \/ KeyPointsChunk
    \/ GenerateFinalSummary
    \/ ProcessReturn

SpecProcess == InitProcess /\ [][NextProcess]_vars

\* process_transcript when the LLM service may never answer.  The thread
\* takes every step that waits for no one (the text splitter, TextBlob, the
\* return); a chain.invoke returns or raises only if the service answers,
\* and langchain_processor.py sets no timeout on the LLM or on the call, so
\* nothing else ends the wait.
SpecProcessLive ==
    SpecProcess /\ WF_vars(PrepareTranscript \/ SentimentChunk \/ ProcessReturn)

\* a new VideoAnalyzer and the calls made on it
NextAnalyzer ==
    \/ \E u \in Urls : DirectGetTranscript(u)
    \/ ChatWithVideo
    \/ GetSegmentContext
    \/ ExportAnalysis

SpecAnalyzer == InitApi /\ [][NextAnalyzer]_vars

\* the LLM has returned its text to generate_insights or to the
\* golden-nugget extraction of analyze_transcript
InitInsight ==
    /\ engine_response \in ResponseSamples
    /\ engine_pc \in {"generate_insights", "analyze_transcript"}
    /\ engine_insights = <<>>
    /\ direct_log = <<>>
    /\ id_url = <<>>
    /\ id_result = <<>>
    /\ id_pc = "idle"
    /\ ChunkIdle /\ DedupIdle /\ ApiIdle /\ ProcIdle

NextInsight == GenerateInsights \/ GoldenNuggets

SpecInsight == InitInsight /\ [][NextInsight]_vars

\* extract_video_id is called with a supported form of the url of a video
InitVideoId ==
    /\ id_url \in UNION { SupportedForms(id) : id \in VideoIds }
    /\ id_result = <<>>
    /\ id_pc = "call"
    /\ direct_log = <<>>
    /\ engine_response = <<>>
    /\ engine_insights = <<>>
    /\ engine_pc = "idle"
    /\ ChunkIdle /\ DedupIdle /\ ApiIdle /\ ProcIdle

NextVideoId == ExtractVideoId

SpecVideoId == InitVideoId /\ [][NextVideoId]_vars

\* generate_final_summary(chunk_results) called with the analyses of the
\* chunks in any order
InitSummary ==
    /\ video_data = [metadata |-> EmptyDict, split |-> <<>>]
    /\ video_context \in ContextSamples
    /\ chunk_results \in ScrambledResults(video_context)
    /\ proc_chunks = <<>>
    /\ chunk_analysis = EmptyDict
    /\ final_summary = None
    /\ proc_result = None
    /\ llm_calls = <<>>
    /\ proc_pc = "final"
    /\ ChunkIdle /\ DedupIdle /\ ApiIdle /\ AuxIdle

NextSummary == GenerateFinalSummary

SpecSummary == InitSummary /\ [][NextSummary]_vars

(***************************************************************************)
(* Claims about chunk_transcript, checked under SpecChunk.                 *)
(***************************************************************************)
RECURSIVE FlattenSegments(_)
FlattenSegments(chs) ==
    IF chs = <<>> THEN <<>> ELSE chs[1].segments \o FlattenSegments(Tail(chs))

ChunkSizesOf(chs) == [k \in 1..Len(chs) |-> Len(chs[k].segments)]

\* C1: the 'segments' lists of the returned chunks, concatenated in output
\* order, are exactly the input segment sequence (nothing dropped,
\* duplicated or reordered), for every transcript, the empty one included,
\* and every chunk_size.
C1_ChunksReproduceTranscript ==
    chunk_pc = "done" => FlattenSegments(chunks) = transcript

\* a run that closed a chunk inside the loop and added a remaining one
C1_Witness ==
    /\ chunk_pc = "done"
    /\ Len(transcript) = 3
    /\ ChunkSizesOf(chunks) = <<2, 1>>
    /\ ~_is_natural_break(transcript[3].text)

\* the triggers as the claim words them, at the j-th segment of a chunk
TriggerAt(segs, j, size) ==
    \/ j >= size
    \/ SumDurations(SubSeq(segs, 1, j)) >= 30
    \/ _is_natural_break(segs[j].text)

\* C2: every returned chunk is non-empty, no trigger (pending count >=
\* chunk_size, pending duration >= 30, natural break) held at a non-final
\* segment of a chunk, and every chunk but possibly the last ends with a
\* segment at which a trigger held; the pending chunk of an unfinished run
\* holds no segment at which a trigger held.
C2_ClosedExactlyAtTriggers ==
    /\ \A k \in 1..Len(chunks) :
          LET segs == chunks[k].segments IN
          /\ Len(segs) >= 1
          /\ \A j \in 1..(Len(segs) - 1) : ~TriggerAt(segs, j, chunk_size)
          /\ (k < Len(chunks) \/ chunk_pc # "done") => TriggerAt(segs, Len(segs), chunk_size)
    /\ chunk_pc = "loop" =>
          \A j \in 1..Len(current_chunk) : ~TriggerAt(current_chunk, j, chunk_size)

\* a finished run whose first chunk was closed by the duration alone and
\* whose last chunk was closed by no trigger
C2_Witness ==
    /\ chunk_pc = "done"
    /\ chunk_size = 5
    /\ ChunkSizesOf(chunks) = <<2, 1>>
    /\ chunks[1].duration = 30
    /\ ~_is_natural_break(chunks[1].segments[2].text)
    /\ ~TriggerAt(chunks[2].segments, 1, chunk_size)

IsEndToEndInput ==
    /\ Len(transcript) = 12
    /\ \A i \in 1..12 : transcript[i].duration = 3
    /\ \A i \in 1..11 : ~_is_natural_break(transcript[i].text)
    /\ LET t == transcript[12].text IN t # <<>> /\ t[Len(t)] = "!"
    /\ chunk_size = 5

\* C3: 12 segments of duration 3, the 12th ending in "!", none of the first
\* 11 at a natural break, chunk_size 5: exactly three chunks, of 5, 5 and 2
\* segments in that order.
C3_EndToEndChunkSizes ==
    (chunk_pc = "done" /\ IsEndToEndInput) => ChunkSizesOf(chunks) = <<5, 5, 2>>

C3_Witness ==
    /\ chunk_pc = "done"
    /\ IsEndToEndInput
    /\ Len(chunks) = 3
    /\ \A k \in 1..3 : chunks[k].duration < 30

(***************************************************************************)
(* Claims about deduplicate_insights, checked under SpecDedup.             *)
(***************************************************************************)
\* sub is a subsequence of list: list with some elements left out
RECURSIVE IsSubsequence(_, _)
IsSubsequence(sub, list) ==
    IF sub = <<>> THEN TRUE
    ELSE IF list = <<>> THEN FALSE
    ELSE IF Head(sub) = Head(list) THEN IsSubsequence(Tail(sub), Tail(list))
    ELSE IsSubsequence(sub, Tail(list))

\* C4: the output is a subsequence of the input (same relative order, no
\* insight altered or invented) and the first input insight is in the
\* output, as its first insight.
C4_OrderPreservingFirstWins ==
    /\ IsSubsequence(unique_insights, insights)
    /\ (ins_idx >= 1) => (unique_insights # <<>> /\ unique_insights[1] = insights[1])

\* a finished run that dropped the second of three insights and kept the third
C4_Witness ==
    /\ dedup_pc = "done"
    /\ Len(insights) = 3
    /\ unique_insights = <<insights[1], insights[3]>>

\* the Jaccard similarity of the claim: |A n B| / |A u B| over the
\* lower-cased whitespace-split word sets, 0 when both are empty; here,
\* whether it is strictly greater than the threshold
JaccardExceeds(a, b, threshold) ==
    LET A == SetOf(Split(Lower(a.explanation)))
        B == SetOf(Split(Lower(b.explanation)))
    IN  IF A \cup B = {} THEN 0 > threshold.num
        ELSE Cardinality(A \cap B) * threshold.den > threshold.num * Cardinality(A \cup B)

\* the index in the input of an insight (the titles are distinct)
InputIndex(x) == CHOOSE i \in 1..Len(insights) : insights[i] = x

\* C5: no two output insights have a similarity greater than the threshold,
\* and every dropped insight has a similarity greater than the threshold
\* with an output insight that precedes it in the input.
C5_RejectedIffSimilarToAccepted ==
    /\ \A i, j \in 1..Len(unique_insights) :
          i < j => ~JaccardExceeds(unique_insights[j], unique_insights[i], similarity_threshold)
    /\ \A k \in 1..ins_idx :
          insights[k] \notin SetOf(unique_insights) =>
              \E i \in 1..Len(unique_insights) :
                  /\ InputIndex(unique_insights[i]) < k
                  /\ JaccardExceeds(insights[k], unique_insights[i], similarity_threshold)

\* a finished run at threshold 1/2 that kept an insight whose similarity
\* to an accepted one is exactly 1/2 and dropped one whose similarity is 1
C5_Witness ==
    /\ dedup_pc = "done"
    /\ similarity_threshold = Fraction(5, 10)
    /\ Len(insights) = 3
    /\ unique_insights = <<insights[1], insights[2]>>
    /\ _calculate_similarity(insights[1].explanation, insights[2].explanation) = Fraction(1, 2)
    /\ _calculate_similarity(insights[3].explanation, insights[1].explanation) = Fraction(1, 1)

\* C6: deduplicating the output again, with the same threshold, returns it
\* unchanged.
C6_DedupIdempotent ==
    dedup_pc = "done" =>
        deduplicate_insights(unique_insights, similarity_threshold) = unique_insights

\* a finished run that dropped an insight and kept two
C6_Witness ==
    /\ dedup_pc = "done"
    /\ Len(insights) = 3
    /\ Len(unique_insights) = 2
    /\ insights[3] \in SetOf(unique_insights)

IsRevenueRun ==
    /\ Len(insights) = 2
    /\ insights[1].explanation = ExplanationCutting
    /\ insights[2].explanation = ExplanationReducing
    /\ similarity_threshold = Fraction(8, 10)

\* C7 as claimed: with the threshold 0.8 the two revenue insights have a
\* similarity greater than 0.8 and collapse to the first.
C7_RevenueInsightsCollapse ==
    (dedup_pc = "done" /\ IsRevenueRun) =>
        /\ GreaterThan(_calculate_similarity(ExplanationCutting, ExplanationReducing),
                       Fraction(8, 10))
        /\ unique_insights = <<insights[1]>>

\* C7 as amended: with the threshold 0.8 the two revenue insights have the
\* similarity 4/6 (4 common words of 6), which is not greater than 0.8, and
\* both are in the output, in input order.
C7_RevenueInsightsBothKept ==
    (dedup_pc = "done" /\ IsRevenueRun) =>
        /\ _calculate_similarity(ExplanationCutting, ExplanationReducing) = Fraction(4, 6)
        /\ ~GreaterThan(Fraction(4, 6), Fraction(8, 10))
        /\ unique_insights = insights

C7_Witness ==
    /\ dedup_pc = "done"
    /\ IsRevenueRun
    /\ Len(unique_insights) = 2

(***************************************************************************)
(* Claims about the API cache, checked under SpecApi.                      *)
(***************************************************************************)
FieldsOf(cache, u) == IF u \in DOMAIN cache THEN DOMAIN cache[u] ELSE {}

\* C8: in every step of every interleaving of the four endpoints, the set
\* of the fields present in the cache entry of a key only grows; no entry is
\* removed.
C8_EntryFieldsOnlyGrow ==
    [][\A u \in Urls :
          /\ u \in DOMAIN analysis_cache => u \in DOMAIN analysis_cache'
          /\ FieldsOf(analysis_cache, u) \subseteq FieldsOf(analysis_cache', u)]_vars

\* the first request, a full analysis, has stored its combined result over
\* the entry its parts had made
C8_Witness ==
    /\ response.req = 1
    /\ response.op = "analyze"
    /\ response.line = 193
    /\ FieldsOf(analysis_cache, "urlA") = Fields

\* C9: the completeness test of analyze_video is false for an entry that
\* lacks one of metadata, transcript, sentiment, keyPoints, and once it is
\* true for a key it is true after every further step.
C9_CompleteMeansAllFieldsAndStays ==
    /\ [](\A u \in Urls : IsComplete(analysis_cache, u) =>
                            Fields \subseteq FieldsOf(analysis_cache, u))
    /\ [][\A u \in Urls : IsComplete(analysis_cache, u) => IsComplete(analysis_cache', u)]_vars

\* a sentiment request that was computing when the entry became complete
\* has stored its result in the complete entry, which is still complete
C9_Witness ==
    /\ response.req = 1
    /\ response.op = "sentiment"
    /\ response.line = 137
    /\ req[2].op = "answered"
    /\ IsComplete(analysis_cache, "urlA")

\* request r arrives in this step and is a full analysis of u
AnalyzeArrives(r, u) ==
    /\ req[r].op = "none"
    /\ \/ req'[r].op = "analyze" /\ req'[r].url = u
       \/ /\ req'[r].op = "answered"
          /\ response'.req = r /\ response'.op = "analyze" /\ response'.url = u

\* C10: a full analysis that starts when the entry of its key has 4 fields
\* or more is answered in that step with the fields of the entry, calls
\* nothing of the analyzer, starts no task and leaves the cache unchanged.
C10_CompleteEntryShortCircuits ==
    [][\A r \in Requests, u \in Urls :
          (AnalyzeArrives(r, u) /\ Cardinality(FieldsOf(analysis_cache, u)) >= 4) =>
              /\ req'[r].op = "answered"
              /\ response'.status = 200
              /\ \A f \in Fields : response'.body[f] = analysis_cache[u][f]
              /\ response'.body["summary"] = None
              /\ analysis_cache' = analysis_cache
              /\ UNCHANGED <<current_video_data, current_video_metadata, analyzer_cache, calls>>
              /\ task' = task]_vars

\* the second request, a full analysis, was answered from the complete entry
C10_Witness ==
    /\ response.req = 2
    /\ response.op = "analyze"
    /\ response.line = 169
    /\ response.body = AnalysisResponse(analysis_cache[response.url])

\* request r arrives in this step and calls the endpoint op for u
Arrives(r, op, u) ==
    /\ req[r].op = "none"
    /\ \/ req'[r].op = op /\ req'[r].url = u
       \/ /\ req'[r].op = "answered"
          /\ response'.req = r /\ response'.op = op /\ response'.url = u

\* the field f is in the cache entry of u
Populated(u, f) == u \in DOMAIN analysis_cache /\ f \in DOMAIN analysis_cache[u]

\* an endpoint of sentiment or key points finds its field in the cache
WorkerReusesCache ==
    \A r \in Requests, u \in Urls, k \in Workers :
        (Arrives(r, k, u) /\ Populated(u, k)) =>
            /\ req'[r].op = "answered"
            /\ response'.status = 200
            /\ response'.body[k] = analysis_cache[u][k]
            /\ UNCHANGED <<current_video_data, current_video_metadata, analyzer_cache, calls>>
            /\ task' = task

\* /analyze/quick finds metadata and transcript in the cache
QuickReusesCache ==
    \A r \in Requests, u \in Urls :
        (Arrives(r, "quick", u) /\ Populated(u, "metadata") /\ Populated(u, "transcript")) =>
            /\ req'[r].op = "answered"
            /\ response'.status = 200
            /\ response'.body["metadata"] = analysis_cache[u]["metadata"]
            /\ response'.body["transcript"] = analysis_cache[u]["transcript"]
            /\ UNCHANGED <<current_video_data, current_video_metadata, analyzer_cache, calls>>

\* a task of a full analysis starts and finds its field in the cache
TaskReusesCache ==
    \A r \in Requests, k \in Workers :
        (/\ task[r][k].st = "created"
         /\ task'[r][k].st # "created"
         /\ Populated(task[r][k].url, k)) =>
            /\ task'[r][k].st = "returned"
            /\ task'[r][k].val = analysis_cache[task[r][k].url][k]
            /\ UNCHANGED <<current_video_data, current_video_metadata, analyzer_cache, calls>>

\* C11: an invocation of /analyze/quick, /analyze/sentiment or
\* /analyze/keypoints for a key whose field (for quick: metadata and
\* transcript) is already in the cache is answered in the same step with the
\* cached value and calls nothing of the analyzer; the same holds of the
\* sentiment and key-point tasks that a full analysis starts.
C11_CachedFieldIsReused ==
    [][WorkerReusesCache /\ QuickReusesCache /\ TaskReusesCache]_vars

\* the second request, the same operation on the same key as the first, was
\* answered from the cache: the engine was called once
C11_Witness ==
    /\ response.req = 2
    /\ response.op = "sentiment"
    /\ response.line = 127
    /\ response.status = 200
    /\ calls["urlA"]["sentiment"] = 1
    /\ response.body["sentiment"] = analysis_cache["urlA"]["sentiment"]

\* request r is answered in this step by /analyze/quick with status 200
QuickAnswers(r) ==
    /\ req[r].op # "answered"
    /\ req'[r].op = "answered"
    /\ response'.req = r
    /\ response'.op = "quick"
    /\ response'.status = 200

\* C12: when /analyze/quick answers with status 200, the entry of its key
\* then has metadata and transcript, both with a value, and the response
\* carries these values, whatever the entry held before.
C12_QuickResponseCarriesFetchedFields ==
    [][\A r \in Requests :
          QuickAnswers(r) =>
              LET u == response'.url IN
              /\ u \in DOMAIN analysis_cache'
              /\ \A f \in {"metadata", "transcript"} :
                    /\ f \in DOMAIN analysis_cache'[u]
                    /\ analysis_cache'[u][f] # None
                    /\ response'.body[f] = analysis_cache'[u][f]]_vars

\* C13: when the response sent last is the successful response of a full
\* analysis that was not short-circuited, none of the sentiment and
\* key-point coroutines of that request is still in flight, and the request
\* is past its transcript fetch.
C13_FullResponseAfterAllParts ==
    \A r \in Requests :
        (/\ response.req = r
         /\ response.op = "analyze"
         /\ response.status = 200
         /\ response.line = 193) =>
            /\ \A k \in Workers : task[r][k].st = "none"
            /\ req[r].pc = "done"

\* the second request, a full analysis, had its engine calls made and then
\* sent its combined result
C13_Witness ==
    /\ response.req = 2
    /\ response.op = "analyze"
    /\ response.line = 193
    /\ response.body["sentiment"] # None
    /\ response.body["keyPoints"] # None
    /\ \E u \in Urls : calls[u]["sentiment"] >= 1 /\ calls[u]["keyPoints"] >= 1

\* C14: the states between the steps of the event loop are all that a
\* lookup or a completeness test of another request can see, and in each of
\* them every entry of the cache is a whole number of writes: it is not the
\* empty dict that the writes start from, and it has metadata exactly when it
\* has transcript.
C14_NoHalfAppliedWrite ==
    \A u \in DOMAIN analysis_cache :
        /\ DOMAIN analysis_cache[u] # {}
        /\ "metadata" \in DOMAIN analysis_cache[u] <=> "transcript" \in DOMAIN analysis_cache[u]

\* a sentiment coroutine has stored its field in the entry that a quick
\* analysis made with its two fields, while another coroutine is in flight
C14_Witness ==
    /\ FieldsOf(analysis_cache, "urlA") = {"metadata", "transcript", "sentiment"}
    /\ \E r \in Requests, k \in Workers : task[r][k].st \in {"thread", "thread_returned"}

(***************************************************************************)
(* The claim about the cache key, checked under SpecKey.                   *)
(***************************************************************************)
\* two urls name the same video
SameVideo(u, v) == VideoIdOf[u] = VideoIdOf[v]

\* C15: requests that name one video by different forms of its url address
\* one entry: neither the cache of the API nor the cache of the
\* VideoAnalyzer holds two entries for one video.
C15_OneEntryPerVideo ==
    /\ \A u, v \in DOMAIN analysis_cache : SameVideo(u, v) => u = v
    /\ \A u, v \in DOMAIN analyzer_cache : SameVideo(u, v) => u = v

(***************************************************************************)
(* Claims about the failures of the API, checked under SpecApi.            *)
(***************************************************************************)
\* the response sent last is the failure of a sentiment or key-point
\* endpoint
WorkerFailed == response.op \in Workers /\ "detail" \in DOMAIN response.body

\* C16: the failure response of the sentiment or key-point endpoint has
\* status 429 when the call underneath failed with the rate-limit error,
\* and status 500 for every other failure.
C16_RateLimitAnswers429 ==
    WorkerFailed =>
        response.status = (IF response.body.detail = "RateLimitError" THEN 429 ELSE 500)

\* the full analysis of request r, past its transcript fetch, is answered
\* in this step, the task ok having returned and the other task having
\* raised
AnsweredWithOneFailure(r, ok) ==
    /\ req[r].op = "analyze"
    /\ req[r].pc = "gather"
    /\ req'[r].op = "answered"
    /\ task[r][ok].st = "returned"
    /\ \A k \in Workers \ {ok} : task[r][k].st = "raised"

\* C17: a full analysis whose transcript fetch succeeded and of whose two
\* sub-operations exactly one failed is answered with status 200 and a
\* partial result: the metadata and the transcript of the fetch, the facet
\* that succeeded, and None for the facet that failed.
C17_OneFailedFacetIsPartial ==
    [][\A r \in Requests, ok \in Workers :
          AnsweredWithOneFailure(r, ok) =>
              /\ response'.req = r
              /\ response'.status = 200
              /\ response'.body["metadata"] = req[r].quick.metadata
              /\ response'.body["transcript"] = req[r].quick.transcript
              /\ response'.body[ok] = task[r][ok].val
              /\ \A k \in Workers \ {ok} : response'.body[k] = None]_vars

(***************************************************************************)
(* Claims about the TranscriptProcessor.                                   *)
(***************************************************************************)
\* the calls of a chain (or of TextBlob) that llm_calls holds
CallsOf(op) == { c \in 1..Len(llm_calls) : llm_calls[c].op = op }

\* C18: generate_final_summary, given the analyses of the chunks 1..N in any
\* order, each tagged with its chunk_index, puts them into the combined text
\* in the order of chunk_index: line i is labelled i and carries the summary
\* and the key points of the analysis tagged i.
C18_CombinedTextInIndexOrder ==
    \A c \in CallsOf("final") :
        LET lines == llm_calls[c].inputs.summaries IN
        /\ Len(lines) = Len(chunk_results)
        /\ \A i, k \in 1..Len(chunk_results) :
              ( /\ "chunk_index" \in DOMAIN chunk_results[k]
                /\ chunk_results[k].chunk_index = i )
              => lines[i] = SummaryLine(i, chunk_results[k])

\* the outcome of the call of a chain for chunk i
ChunkOutcome(op, i) ==
    LET c == CHOOSE c \in CallsOf(op) : llm_calls[c].inputs.chunk_index = i
    IN llm_calls[c].outcome

\* the outcome of the call of TextBlob for a chunk
SentimentOutcome(chunk) ==
    LET c == CHOOSE c \in CallsOf("sentiment") : llm_calls[c].inputs.text = chunk
    IN llm_calls[c].outcome

\* the outcome of the call of a chain that is called once in a run
RunOutcome(op) == llm_calls[CHOOSE c \in CallsOf(op) : TRUE].outcome

\* process_transcript has returned for a transcript that has chunks
RunWithChunksDone == proc_pc = "done" /\ proc_chunks # <<>>

\* C19: in process_transcript a text-generation step that raises (context,
\* the summary or the key points of one chunk, the final summary) makes only
\* its own output None: the run returns a result with an analysis for every
\* chunk, and every field is what its step computed, or None if it raised.
C19_FailedStepOnlyLosesItsOutput ==
    RunWithChunksDone =>
        /\ proc_result # None
        /\ LET context == proc_result.context_analysis
               analyses == proc_result.chunk_analyses
               n == Len(proc_chunks)
           IN /\ context = analyze_video_context(video_data.metadata, RunOutcome("context"))
              /\ Len(analyses) = n
              /\ \A i \in 1..n :
                    /\ DOMAIN analyses[i] = {"text", "summary", "sentiment", "key_points"}
                    /\ analyses[i].text = proc_chunks[i]
                    /\ analyses[i].summary =
                          summarize_chunk(context, proc_chunks[i], i, n, ChunkOutcome("summary", i))
                    /\ analyses[i].sentiment =
                          TextBlobSentiment(proc_chunks[i], SentimentOutcome(proc_chunks[i]))
                    /\ analyses[i].key_points =
                          extract_key_points(context, proc_chunks[i], i, n,
                                             ChunkOutcome("key_points", i))
              /\ proc_result.final_summary =
                    generate_final_summary(context, analyses, RunOutcome("final"))

\* C19, its case: a run over two or more chunks has returned; the summary of
\* one chunk raised, the key points of that chunk and the summary of another
\* chunk were computed.
C19_Witness ==
    /\ RunWithChunksDone
    /\ proc_result # None
    /\ \E i, j \in 1..Len(proc_chunks) :
          /\ i # j
          /\ ChunkOutcome("summary", i) = "fail"
          /\ ChunkOutcome("key_points", i) = "ok"
          /\ ChunkOutcome("summary", j) = "ok"
          /\ proc_result.chunk_analyses[i].key_points # None

\* C20: the final summary is generated once in a run that has chunks, after
\* the analysis of every chunk has been made, from one analysis per chunk in
\* the order of the chunks (position i is chunk i of total_chunks); never
\* from a part of them, and never when there are no chunks.
C20_FinalSummaryOnceOverAllChunks ==
    /\ Cardinality(CallsOf("final")) <= 1
    /\ proc_chunks = <<>> => CallsOf("final") = {}
    /\ RunWithChunksDone => Cardinality(CallsOf("final")) = 1
    /\ \A c \in CallsOf("final") :
          LET n == Len(proc_chunks) IN
          /\ Len(chunk_results) = n
          /\ Len(llm_calls[c].inputs.summaries) = n
          /\ llm_calls[c].inputs.summaries = all_summaries(chunk_results)
          /\ \A i \in 1..n :
                /\ chunk_results[i].text = proc_chunks[i]
                /\ \A op \in {"summary", "key_points"} :
                      \E b \in CallsOf(op) :
                          /\ b < c
                          /\ llm_calls[b].inputs.chunk_index = i
                          /\ llm_calls[b].inputs.total_chunks = n
                          /\ llm_calls[b].inputs.text = proc_chunks[i]

\* C20, its case: a run over two or more chunks has returned and has called
\* the final summary.
C20_Witness ==
    /\ RunWithChunksDone
    /\ Len(proc_chunks) >= 2
    /\ CallsOf("final") # {}

\* C21: no operation blocks for ever: a run of process_transcript returns a
\* result or an error in the end, even if an external text-generation call
\* never answers.
C21_RunEventuallyReturns == <>(proc_pc = "done")

(***************************************************************************)
(* Claims about get_transcript and the analyzer behind the API.            *)
(***************************************************************************)
\* in this step the get_transcript(u) of quick_analysis raises: the
\* endpoint answers from line 118
QuickFetchFails(r, u) ==
    /\ req[r].op = "none"
    /\ response'.req = r /\ response'.op = "quick" /\ response'.url = u
    /\ response'.line = 118

\* in this step the get_transcript(u) of a worker thread raises
ThreadFetchFails(r, k, u) ==
    /\ task[r][k].st = "get_transcript"
    /\ task[r][k].url = u
    /\ task'[r][k].st = "thread_failed"

\* the step made one fetch for u and left the state of the analyzer alone
OneFetchNoTrace(u) ==
    /\ calls' = Counted(calls, u, "fetch")
    /\ UNCHANGED <<current_video_data, current_video_metadata, analyzer_cache>>

\* C22: when the source has no metadata or no transcript, get_transcript
\* raises after one fetch, without retry, and leaves _cache,
\* current_video_data and current_video_metadata as they were; the
\* /analyze/quick endpoint then answers with an error and makes no entry in
\* analysis_cache for the key.
C22_FailedFetchLeavesNoTrace ==
    [][ /\ \A r \in Requests, u \in Urls :
              QuickFetchFails(r, u) =>
                 /\ OneFetchNoTrace(u)
                 /\ response'.status = 500
                 /\ response'.body = [detail |-> NoVideoData.detail]
                 /\ analysis_cache' = analysis_cache
                 /\ u \notin DOMAIN analysis_cache'
        /\ \A r \in Requests, k \in Workers, u \in Urls :
              ThreadFetchFails(r, k, u) =>
                 OneFetchNoTrace(u) /\ analysis_cache' = analysis_cache ]_vars

\* C22, its case: /analyze/quick has answered with the error for a url whose
\* fetch returned nothing, after another video had been loaded.
C22_Witness ==
    /\ response.op = "quick" /\ response.line = 118
    /\ calls[response.url].fetch = 1
    /\ response.url \notin DOMAIN analysis_cache
    /\ response.url \notin DOMAIN analyzer_cache
    /\ current_video_data # None

\* no get_transcript of direct_log has returned
NeverLoaded ==
    \A c \in 1..Len(direct_log) :
        direct_log[c].method = "get_transcript" => "raised" \in DOMAIN direct_log[c].outcome

\* C23: chat_with_video, get_segment_context and export_analysis, called on
\* an analyzer for which no transcript has been loaded (also after a
\* get_transcript that failed), raise the precondition error that names the
\* missing step, invoke no collaborator and leave the analyzer as it was.
C23_PreconditionErrorBeforeLoad ==
    [][ (NeverLoaded /\ direct_log' # direct_log /\
         direct_log'[Len(direct_log')].method # "get_transcript")
        => /\ direct_log'[Len(direct_log')].outcome = [raised |-> PreconditionError]
           /\ direct_log'[Len(direct_log')].collaborators = {}
           /\ UNCHANGED analyzerVars ]_vars

\* C23, its case: a get_transcript has failed, and a chat, a lookup of the
\* context and an export that followed it have raised the precondition
\* error.
C23_Witness ==
    /\ Len(direct_log) = 4
    /\ direct_log[1].method = "get_transcript" /\ "raised" \in DOMAIN direct_log[1].outcome
    /\ { direct_log[c].method : c \in 2..4 } =
          {"chat_with_video", "get_segment_context", "export_analysis"}
    /\ \A c \in 2..4 : direct_log[c].outcome = [raised |-> PreconditionError]

(***************************************************************************)
(* Claims about the insight engine and the YouTube service.                *)
(***************************************************************************)
\* json.loads raises JSONDecodeError on the cleaned response
Unparsable(text) == ~json_loads(_clean_json_response(text)).ok

\* C24: when the text of the LLM cannot be parsed into a list of insights
\* even after cleaning, generate_insights and the golden-nugget extraction
\* of analyze_transcript do not raise and yield a list of exactly one
\* well-formed placeholder insight, which says that structuring failed.
C24_UnparsableYieldsPlaceholder ==
    (engine_pc = "done" /\ Unparsable(engine_response))
    => /\ "arr" \in DOMAIN engine_insights
       /\ Len(engine_insights.arr) = 1
       /\ engine_insights.arr[1] = BasicInsight

\* C25: extract_video_id returns the bare id of the video for every
\* supported form of its url: the watch url, with or without further
\* parameters, the short url, and the id itself.
C25_EveryFormGivesTheId ==
    id_pc = "done" =>
        \A id \in VideoIds : id_url \in SupportedForms(id) => id_result = id

\* the calls of process_transcript that are given the video context
ContextUsers == CallsOf("summary") \cup CallsOf("key_points") \cup CallsOf("final")

\* C26: in one run of process_transcript the video context is derived once,
\* before any chunk is analysed, and every summary call, every key-point
\* call and the final-summary call of the run are given that same value;
\* when the derivation failed the value is None, never the context of an
\* earlier run.
C26_OneContextPerRun ==
    /\ Cardinality(CallsOf("context")) <= 1
    /\ \A c \in ContextUsers :
          /\ \E d \in CallsOf("context") : d < c
          /\ llm_calls[c].inputs.context =
                analyze_video_context(video_data.metadata, RunOutcome("context"))
          /\ llm_calls[c].inputs.context = video_context
          /\ RunOutcome("context") = "fail" =>
                /\ llm_calls[c].inputs.context = None
                /\ llm_calls[c].inputs.context # EarlierContext

\* C26, its case: the derivation of the context failed, and the run has
\* analysed two or more chunks and called the final summary without a
\* context.
C26_Witness ==
    /\ proc_pc = "done"
    /\ Len(proc_chunks) >= 2
    /\ RunOutcome("context") = "fail"
    /\ CallsOf("final") # {}
    /\ \A c \in ContextUsers : llm_calls[c].inputs.context = None

(***************************************************************************)
(* Claims about the API under any order of requests.                       *)
(***************************************************************************)
\* C27: in every reachable state an entry of analysis_cache that is
\* complete (four fields or more, so that /analyze answers from it) holds a
\* computed value, not None, for each of metadata, transcript, sentiment and
\* keyPoints, whatever the order of the requests.
C27_CompleteEntryHasNoNull ==
    \A u \in DOMAIN analysis_cache :
        IsComplete(analysis_cache, u) =>
            \A f \in Fields : f \in DOMAIN analysis_cache[u] /\ analysis_cache[u][f] # None

\* C28: VideoAnalyzer.analyze_sentiment(video_url) and
\* extract_key_points(video_url) compute over the transcript of video_url
\* itself, after any earlier operations on other urls: the result that a
\* worker thread brings back was computed over the transcript of the url of
\* its request.
C28_AnalysisOverOwnTranscript ==
    \A r \in Requests, k \in Workers :
        task[r][k].st = "thread_returned" =>
            task[r][k].val = EngineResult(k, TranscriptOf(task[r][k].url))

\* the value of field k for u has been computed: it is in analysis_cache, or
\* a worker thread has brought it back and its coroutine is about to cache it
Computed(u, k) ==
    \/ CacheHit(u, k)
    \/ \E r \in Requests : task[r][k].st = "thread_returned" /\ task[r][k].url = u

\* the transcript of u has been fetched: it is in the cache of the
\* analyzer, or a get_transcript(u) is between its fetch and its return
Fetched(u) ==
    \/ TranscriptCached(analyzer_cache, u)
    \/ \E r \in Requests :
          \/ req[r].url = u /\ req[r].pc \in {"set_metadata", "build_result"}
          \/ \E k \in Workers :
                task[r][k].url = u /\ task[r][k].st \in {"set_metadata", "build_result"}

\* the requests in progress and the one answered last are of
\* /analyze/sentiment, /analyze/keypoints and /analyze
OnlyAnalysisRequests ==
    /\ response.op # "quick"
    /\ \A r \in Requests : req[r].op # "quick" /\ req'[r].op # "quick"

\* C29: for one key, under any interleaving of concurrent requests and
\* while nothing fails, each expensive computation is made at most once: no
\* sentiment computation, key-point computation or fetch is started for a
\* key for which it has already been made.
C29_ComputedAtMostOnce ==
    [][ OnlyAnalysisRequests =>
          \A u \in Urls :
             /\ \A k \in Workers : calls'[u][k] > calls[u][k] => ~Computed(u, k)
             /\ calls'[u].fetch > calls[u].fetch => ~Fetched(u) ]_vars

\* in this step the /analyze request r is answered with the error of a
\* sub-operation that failed
AnalyzeAnswersError(r) ==
    /\ req[r].op = "analyze" /\ req[r].pc = "gather"
    /\ req'[r] = Answered
    /\ response'.req = r /\ response'.status # 200

\* in this step the sub-operation k that outlived its /analyze request r
\* comes back from its thread with a result
SurvivorResumes(r, k) ==
    /\ req[r].op = "answered"
    /\ ~task[r][k].endpoint
    /\ task[r][k].st = "thread_returned"
    /\ task'[r][k] # task[r][k]

\* C30: when one of the two sub-operations of a full analysis fails, the
\* other is not cancelled: the request answers with an error and does not
\* make its final store, the sub-operation still running goes on, and when
\* it has its result it writes its field into the entry, whose other fields
\* remain.
C30_SurvivorCompletesAndCaches ==
    [][ \A r \in Requests :
          /\ AnalyzeAnswersError(r) =>
                /\ response'.line = 195 /\ response'.status = 500
                /\ analysis_cache' = analysis_cache
                /\ \A k \in Workers :
                      task[r][k].st \notin {"returned", "raised"} => task'[r][k] = task[r][k]
          /\ \A k \in Workers :
                SurvivorResumes(r, k) =>
                   analysis_cache' =
                      CachePut(analysis_cache, task[r][k].url, OneField(k, task[r][k].val)) ]_vars

\* C30, its case: a full analysis has answered with the error of one
\* sub-operation; the other, which was not cancelled, has come back from its
\* thread with its result and is about to write it beside the metadata and
\* the transcript that the fetch has cached.
C30_Witness ==
    /\ response.op = "analyze" /\ response.line = 195
    /\ req[response.req].op = "answered"
    /\ response.url \in DOMAIN analysis_cache
    /\ DOMAIN analysis_cache[response.url] = {"metadata", "transcript"}
    /\ \E k \in Workers :
          /\ task[response.req][k].st = "thread_returned"
          /\ task[response.req][k].url = response.url
          /\ ~task[response.req][k].endpoint

====
